---- MODULE Spec2Model ----
(***************************************************************************)
(* Model of the Run Supervisor (ArbitrageRunner) of the crypto arbitrage   *)
(* framework: the controlling layer's start()/stop()/get_status() calls,   *)
(* the worker processes they launch (run_main_loop) and the parameter      *)
(* override interface (set_optimizer_parameters).                          *)
(*                                                                         *)
(* A worker is a multiprocessing.Process: it runs on its own copy of the   *)
(* ArbitrageRunner object, taken when the process is started.  Only the    *)
(* multiprocessing.Event stop_event is shared between the processes.       *)
(*                                                                         *)
(* The Opportunity Graph Model (PathOptimizer) that a worker runs is       *)
(* followed step by step in SpecOpt: the universe of venue/coin nodes, the *)
(* fetch threads of each iteration, the constraints and the objective of   *)
(* the binary program, and the cycle read back from its solution.          *)
(*                                                                         *)
(* Three parts of it are also followed on their own, over all their        *)
(* inputs: the inter-venue part of the feasibility mask (SpecMask), the    *)
(* thread pools multiThread / killable_multiThread (SpecPool) and the      *)
(* preferred-start constraint under changing balances (SpecBal).           *)
(***************************************************************************)
EXTENDS Integers, Sequences, FiniteSets, TLC

\* ------------------------------------------------------------------------
\* Python values that a JSON request body can carry, and the values that
\* the optimizer parameters take.  Floats are kept in tenths (n = 25 is 2.5).
\* ------------------------------------------------------------------------
V(t, n, s, b) == [t |-> t, n |-> n, s |-> s, b |-> b]
VInt(n) == V("int", n, "", FALSE)
VFloat(tenths) == V("float", tenths, "", FALSE)
VStr(s) == V("str", 0, s, FALSE)
VBool(b) == V("bool", 0, "", b)
VList(len) == V("list", len, "", FALSE)
VDict(len) == V("dict", len, "", FALSE)
VNone == V("null", 0, "", FALSE)

\* bool(x): Python truthiness
Truthy(v) ==
    CASE v.t = "int" -> v.n # 0
      [] v.t = "float" -> v.n # 0
      [] v.t = "str" -> v.s # ""
      [] v.t = "bool" -> v.b
      [] v.t = "list" -> v.n > 0
      [] v.t = "dict" -> v.n > 0
      [] OTHER -> FALSE

\* the texts int() accepts, with their values
IntText == ("3" :> 3) @@ ("0" :> 0) @@ ("-1" :> -1)
\* the texts float() accepts, with their values in tenths
FloatText == ("3" :> 30) @@ ("0" :> 0) @@ ("-1" :> -10) @@ ("2.5" :> 25)
\* the texts json.loads() accepts, with the parsed values
JsonText ==
    ("{\"USDT\": 5}" :> VDict(1)) @@ ("[1]" :> VList(1)) @@ ("null" :> VNone)
    @@ ("{\"v1\": {\"A\": 30}}" :> V("dict", 1, "balances", FALSE))
    @@ ("3" :> VInt(3)) @@ ("0" :> VInt(0)) @@ ("-1" :> VInt(-1))
    @@ ("2.5" :> VFloat(25)) @@ ("true" :> VBool(TRUE)) @@ ("false" :> VBool(FALSE))
\* str.strip() leaves nothing of these
BlankText == {"", "  "}
\* str.lower() of the texts that hold capitals
Lower(s) ==
    CASE s \in {"True", "TRUE"} -> "true"
      [] s \in {"False"} -> "false"
      [] OTHER -> s

Trunc10(tenths) == IF tenths >= 0 THEN tenths \div 10 ELSE -((-tenths) \div 10)

Ok(v) == [exc |-> "", val |-> v]
Raise(e) == [exc |-> e, val |-> VNone]

\* int(x)
PyInt(v) ==
    CASE v.t = "int" -> Ok(VInt(v.n))
      [] v.t = "float" -> Ok(VInt(Trunc10(v.n)))
      [] v.t = "bool" -> Ok(VInt(IF v.b THEN 1 ELSE 0))
      [] v.t = "str" -> IF v.s \in DOMAIN IntText THEN Ok(VInt(IntText[v.s]))
                        ELSE Raise("ValueError")
      [] OTHER -> Raise("TypeError")

\* float(x)
PyFloat(v) ==
    CASE v.t = "int" -> Ok(VFloat(10 * v.n))
      [] v.t = "float" -> Ok(VFloat(v.n))
      [] v.t = "bool" -> Ok(VFloat(IF v.b THEN 10 ELSE 0))
      [] v.t = "str" -> IF v.s \in DOMAIN FloatText THEN Ok(VFloat(FloatText[v.s]))
                        ELSE Raise("ValueError")
      [] OTHER -> Raise("TypeError")

\* target_type(val_str) for target_type in int, float, bool
Convert(target, v) ==
    CASE target = "int" -> PyInt(v)
      [] target = "float" -> PyFloat(v)
      [] OTHER -> Ok(VBool(Truthy(v)))

\* json.loads(val_str), reached only with a str
JsonLoads(v) ==
    IF v.s \in DOMAIN JsonText THEN Ok(JsonText[v.s]) ELSE Raise("JSONDecodeError")

\* the library defaults of ArbitrageRunner.__init__
default_path_length == 6
default_interex_trading_size == 2000
default_min_trading_limit == 10
default_orderbook_n == 20

default_optimizer_params ==
    [path_length |-> VInt(default_path_length),
     simulated_bal |-> VNone,
     interex_trading_size |-> VFloat(10 * default_interex_trading_size),
     min_trading_limit |-> VFloat(10 * default_min_trading_limit),
     orderbook_n |-> VInt(default_orderbook_n),
     include_fiat |-> VBool(FALSE),
     inter_exchange_trading |-> VBool(TRUE),
     consider_init_bal |-> VBool(TRUE),
     consider_inter_exc_bal |-> VBool(TRUE)]

\* the json branch of _get_typed_param
GetTypedJson(key, val_str, default_val) ==
    IF ~Truthy(val_str) THEN Ok(default_val)
    ELSE IF val_str.t # "str" THEN Raise("AttributeError")   \* val_str.strip()
    ELSE IF val_str.s \in BlankText THEN Ok(default_val)
    ELSE LET parsed == JsonLoads(val_str) IN
         IF parsed.exc # "" THEN Ok(default_val)
         ELSE IF key = "simulated_bal" /\ parsed.val.t \notin {"null", "dict"}
              THEN Ok(default_val)
         ELSE parsed

\* the bool branch of _get_typed_param
GetTypedBool(val_str, default_val) ==
    IF val_str.t = "bool" THEN Ok(val_str)
    ELSE IF val_str.t = "str" /\ Lower(val_str.s) = "true" THEN Ok(VBool(TRUE))
    ELSE IF val_str.t = "str" /\ Lower(val_str.s) = "false" THEN Ok(VBool(FALSE))
    ELSE IF Truthy(val_str) THEN Convert("bool", val_str) ELSE Ok(default_val)

\* the int / float branch of _get_typed_param
GetTypedNumber(target_type, val_str, default_val) ==
    IF Truthy(val_str) \/ val_str.t \in {"int", "float", "bool"}
    THEN LET r == Convert(target_type, val_str) IN
         IF r.exc = "ValueError" THEN Ok(default_val) ELSE r
    ELSE Ok(default_val)

\* _get_typed_param(key, target_type, default_val, is_json) over params_dict
GetTypedParam(params_dict, key, target_type, default_val, is_json) ==
    IF key \notin DOMAIN params_dict THEN Ok(default_val)
    ELSE IF is_json THEN GetTypedJson(key, params_dict[key], default_val)
    ELSE IF target_type = "bool" THEN GetTypedBool(params_dict[key], default_val)
    ELSE GetTypedNumber(target_type, params_dict[key], default_val)

\* the nine assignments of set_optimizer_parameters, in the order they run
ParamAssignments ==
    << [name |-> "path_length", key |-> "path_length", type |-> "int", json |-> FALSE],
       [name |-> "simulated_bal", key |-> "simulated_bal_json", type |-> "dict", json |-> TRUE],
       [name |-> "interex_trading_size", key |-> "interex_trading_size", type |-> "float", json |-> FALSE],
       [name |-> "min_trading_limit", key |-> "min_trading_limit", type |-> "float", json |-> FALSE],
       [name |-> "orderbook_n", key |-> "orderbook_n", type |-> "int", json |-> FALSE],
       [name |-> "include_fiat", key |-> "include_fiat", type |-> "bool", json |-> FALSE],
       [name |-> "inter_exchange_trading", key |-> "inter_exchange_trading", type |-> "bool", json |-> FALSE],
       [name |-> "consider_init_bal", key |-> "consider_init_bal", type |-> "bool", json |-> FALSE],
       [name |-> "consider_inter_exc_bal", key |-> "consider_inter_exc_bal", type |-> "bool", json |-> FALSE] >>

RECURSIVE AssignFrom(_, _, _)
AssignFrom(i, params_dict, params) ==
    IF i > Len(ParamAssignments) THEN [exc |-> "", params |-> params]
    ELSE LET a == ParamAssignments[i]
             r == GetTypedParam(params_dict, a.key, a.type,
                                default_optimizer_params[a.name], a.json)
         IN IF r.exc # "" THEN [exc |-> r.exc, params |-> params]
            ELSE AssignFrom(i + 1, params_dict, [params EXCEPT ![a.name] = r.val])

\* set_optimizer_parameters(params_dict): the parameters it leaves in
\* current_optimizer_params, and the exception it raises ("" for none)
SetOptimizerParameters(params_dict) ==
    AssignFrom(1, params_dict, default_optimizer_params)

\* ------------------------------------------------------------------------
\* The markets behind the exchange clients (ccxt instances, withdrawalfees.com,
\* CoinMarketCap).  A node is a pair << venue, coin >> (the code's
\* 'venue_coin'); a rate is kept as its logarithm on a grid, so that
\* log(rate * (1 - fee)) is rate - fee and exp() of a sum is a product.
\* ------------------------------------------------------------------------
\* a ticker: bid and ask (quoted: both present and non-zero) and the USD value
\* of one percent of its base volume
Ticker(bid, ask, quoted, vol) == [bid |-> bid, ask |-> ask, quoted |-> quoted, vol |-> vol]

\* two venues listing A/B, A dearer on v1; fee quotes and simulated balances
TwoVenues ==
    [name |-> "two_venues", exchanges |-> {"v1", "v2"}, cmc_api_key |-> TRUE,
     markets |-> [v \in {"v1", "v2"} |-> {<< "A", "B" >>}],
     tickers |-> ("v1" :> (<< "A", "B" >> :> Ticker(2, 2, TRUE, 50)))
                 @@ ("v2" :> (<< "A", "B" >> :> Ticker(0, 0, TRUE, 50))),
     fee |-> ("v1" :> 0) @@ ("v2" :> 1),
     priced |-> {"A", "B"},
     quotes |-> [v \in {"v1", "v2"} |-> {"A", "B"}],
     balance |-> [v \in {"v1", "v2"} |-> ("A" :> 30) @@ ("B" :> 20)]]

\* one venue with a profitable triangle A -> B -> C -> A
Triangle ==
    [name |-> "triangle", exchanges |-> {"v1"}, cmc_api_key |-> TRUE,
     markets |-> ("v1" :> {<< "A", "B" >>, << "B", "C" >>, << "C", "A" >>}),
     tickers |-> ("v1" :> ((<< "A", "B" >> :> Ticker(1, 1, TRUE, 50))
                           @@ (<< "B", "C" >> :> Ticker(0, 0, TRUE, 50))
                           @@ (<< "C", "A" >> :> Ticker(0, 1, TRUE, 50)))),
     fee |-> ("v1" :> 0),
     priced |-> {"A", "B", "C"},
     quotes |-> ("v1" :> {}),
     balance |-> ("v1" :> (("A" :> 30) @@ ("B" :> 0) @@ ("C" :> 0)))]

\* one venue, one pair with too little volume, a balance in A
Illiquid ==
    [name |-> "illiquid", exchanges |-> {"v1"}, cmc_api_key |-> TRUE,
     markets |-> ("v1" :> {<< "A", "B" >>}),
     tickers |-> ("v1" :> (<< "A", "B" >> :> Ticker(1, 1, TRUE, 5))),
     fee |-> ("v1" :> 1),
     priced |-> {"A", "B"},
     quotes |-> ("v1" :> {"A"}),
     balance |-> ("v1" :> (("A" :> 30) @@ ("B" :> 0)))]

\* three venues with no coin in common
ThreeVenues ==
    [name |-> "three_venues", exchanges |-> {"v1", "v2", "v3"}, cmc_api_key |-> TRUE,
     markets |-> ("v1" :> {<< "A", "B" >>}) @@ ("v2" :> {<< "C", "USD" >>, << "C", "D" >>})
                 @@ ("v3" :> {<< "E", "F" >>}),
     tickers |-> ("v1" :> (<< "A", "B" >> :> Ticker(0, 1, TRUE, 50)))
                 @@ ("v2" :> ((<< "C", "USD" >> :> Ticker(3, 3, TRUE, 50))
                              @@ (<< "C", "D" >> :> Ticker(0, 0, FALSE, 50))))
                 @@ ("v3" :> (<< "E", "F" >> :> Ticker(0, 0, TRUE, 50))),
     fee |-> ("v1" :> 1) @@ ("v2" :> 0) @@ ("v3" :> 0),
     priced |-> {"A", "B", "C", "D", "E", "F", "USD"},
     quotes |-> [v \in {"v1", "v2", "v3"} |-> {}],
     balance |-> ("v1" :> (("A" :> 0) @@ ("B" :> 0)))
                 @@ ("v2" :> (("C" :> 0) @@ ("D" :> 0) @@ ("USD" :> 90)))
                 @@ ("v3" :> (("E" :> 0) @@ ("F" :> 0)))]

\* two venues with no coin in common, each with a crossed book: selling the
\* base coin and buying it back leaves more of it
CrossedBooks ==
    [name |-> "crossed_books", exchanges |-> {"v1", "v2"}, cmc_api_key |-> TRUE,
     markets |-> ("v1" :> {<< "A", "B" >>}) @@ ("v2" :> {<< "C", "D" >>}),
     tickers |-> ("v1" :> (<< "A", "B" >> :> Ticker(1, 0, TRUE, 50)))
                 @@ ("v2" :> (<< "C", "D" >> :> Ticker(1, 0, TRUE, 50))),
     fee |-> ("v1" :> 0) @@ ("v2" :> 0),
     priced |-> {"A", "B", "C", "D"},
     quotes |-> [v \in {"v1", "v2"} |-> {}],
     balance |-> ("v1" :> (("A" :> 30) @@ ("B" :> 0)))
                 @@ ("v2" :> (("C" :> 0) @@ ("D" :> 0)))]

\* no reference-price credential
NoKey == [Illiquid EXCEPT !.name = "no_key", !.cmc_api_key = FALSE]

Markets == {TwoVenues, Triangle, Illiquid, ThreeVenues, CrossedBooks, NoKey}

\* fiat and tokens of crypto/info.py
fiat == {"USD"}
tokens == {"A", "B", "C", "D", "E", "F"}

\* exchange.currencies.keys() once load_markets() has run
Currencies(m, v) == UNION {{pair[1], pair[2]} : pair \in m.markets[v]}

Coin(node) == node[2]
Venue(node) == node[1]

\* a withdrawal fee quote of get_withdrawal_fees: its USD amount, and the
\* logarithm of 1 - usd_rate on the grid
usd_fee == 1
usd_rate == 0

\* enumerate(self.currency_set): one of the orders a Python set may take
VenueRank == ("v1" :> 1) @@ ("v2" :> 2) @@ ("v3" :> 3)
CoinRank ==
    ("A" :> 1) @@ ("B" :> 2) @@ ("C" :> 3) @@ ("D" :> 4) @@ ("E" :> 5) @@ ("F" :> 6)
    @@ ("USD" :> 7)
Index(node) == 10 * VenueRank[Venue(node)] + CoinRank[Coin(node)]
EdgeIndex(edge) == 100 * Index(edge[1]) + Index(edge[2])

\* ------------------------------------------------------------------------
\* PathOptimizer
\* ------------------------------------------------------------------------
NoFees == [known |-> FALSE, nodes |-> {}]
NoThreads == [running |-> {}, outputList |-> << >>]
NoChangeable == [on |-> FALSE, idx |-> {}]
NoSolution == [found |-> FALSE, edges |-> {}]

\* exchange clients that reach no venue
NoMarket ==
    [name |-> "none", exchanges |-> {}, cmc_api_key |-> FALSE, markets |-> << >>,
     tickers |-> << >>, fee |-> << >>, priced |-> {}, quotes |-> << >>,
     balance |-> << >>]

\* the class attributes of PathOptimizer, before an instance is made; failed
\* and rebuilt record what the current call of find_arbitrage() met and which
\* matrices it has rebuilt, constraint_ops what the last call of
\* update_changeable_constraint() did to the model ("remove", "add")
NoOptimizer ==
    [made |-> FALSE, exchanges |-> NoMarket, loaded |-> {},
     path_length |-> VNone, simulated_bal |-> VNone, min_trading_limit |-> VNone,
     include_fiat |-> FALSE, inter_exchange_trading |-> FALSE,
     consider_init_bal |-> FALSE, consider_inter_exc_bal |-> FALSE,
     run_times |-> 0, inits |-> 0, step |-> "out",
     currency_set |-> {}, crypto_prices |-> {}, withdrawal_fee |-> NoFees,
     inter_convert_list |-> {}, var_location |-> {}, var |-> 0, x |-> {},
     constraints |-> {}, changeable |-> NoChangeable, constraint_ops |-> {},
     required_currencies |-> << >>,
     balance_dict |-> << >>, price |-> {}, transit_price_matrix |-> << >>,
     commission_matrix |-> << >>, vol_matrix |-> << >>, objective |-> << >>,
     threads |-> NoThreads, failed |-> {}, rebuilt |-> {}, ms |-> NoSolution,
     xs |-> {}, obj |-> 0, path |-> << >>]

\* PathOptimizer(exchange_instances, trading_fees, cmc_api_key, **params) as
\* run_main_loop calls it; m is what the exchange clients reach
NewOptimizer(params, m) ==
    [NoOptimizer EXCEPT
        !.made = TRUE, !.exchanges = m,
        !.path_length = params.path_length,
        !.simulated_bal = params.simulated_bal,
        !.min_trading_limit = params.min_trading_limit,
        !.include_fiat = Truthy(params.include_fiat),
        !.inter_exchange_trading = Truthy(params.inter_exchange_trading),
        !.consider_init_bal = Truthy(params.consider_init_bal),
        !.consider_inter_exc_bal = Truthy(params.consider_inter_exc_bal)]

\* get_crypto_prices(api_key, coins): the coins it returns a price for
GetCryptoPrices(m, coins, cmc_up) == IF cmc_up THEN coins \cap m.priced ELSE {}

InitCurrencyInfoBreaking(po, down, cmc_up) ==
    LET m == po.exchanges
        listed == {v \in m.exchanges :
                     v \in po.loaded \/ down = "none" \/ VenueRank[v] < VenueRank[down]}
        names == UNION {{<< v, c >> : c \in Currencies(m, v)} : v \in listed}
        kept == IF po.include_fiat THEN names ELSE {n \in names : Coin(n) \notin fiat}
        coin_set == {Coin(n) : n \in kept} \cap (tokens \cup fiat)
        prices == IF ~m.cmc_api_key THEN {} ELSE GetCryptoPrices(m, coin_set, cmc_up)
    IN [po EXCEPT !.loaded = listed,
                  !.crypto_prices = prices,
                  !.currency_set = {n \in kept : Coin(n) \in prices}]

\* init_currency_info(); down is the venue whose load_markets() fails, if it
\* has not loaded before
InitCurrencyInfo(po, down, cmc_up) ==
    LET m == po.exchanges
        listed == {v \in m.exchanges : v \in po.loaded \/ v # down}
        names == UNION {{<< v, c >> : c \in Currencies(m, v)} : v \in listed}
        kept == IF po.include_fiat THEN names ELSE {n \in names : Coin(n) \notin fiat}
        coin_set == {Coin(n) : n \in kept} \cap (tokens \cup fiat)
        prices == IF ~m.cmc_api_key THEN {} ELSE GetCryptoPrices(m, coin_set, cmc_up)
    IN [po EXCEPT !.loaded = listed,
                  !.crypto_prices = prices,
                  !.currency_set = {n \in kept : Coin(n) \in prices}]

\* combinations(full_names_list, 2) over the nodes of one coin
SameCoinPairs(po) ==
    {e \in po.currency_set \X po.currency_set :
        Coin(e[1]) = Coin(e[2]) /\ Index(e[1]) < Index(e[2])}

\* get_inter_convert_list(): "x in self.withdrawal_fee" is a TypeError while
\* withdrawal_fee is still None
GetInterConvertList(po) ==
    IF ~po.inter_exchange_trading THEN [exc |-> "", po |-> [po EXCEPT !.inter_convert_list = {}]]
    ELSE IF SameCoinPairs(po) # {} /\ ~po.withdrawal_fee.known
    THEN [exc |-> "TypeError", po |-> [po EXCEPT !.inter_convert_list = {}]]
    ELSE [exc |-> "",
          po |-> [po EXCEPT !.inter_convert_list =
                     {e \in SameCoinPairs(po) : e[1] \in po.withdrawal_fee.nodes
                                                /\ e[2] \in po.withdrawal_fee.nodes}]]

\* update_withdrawal_fee(); down is the venue whose fee page cannot be read
UpdateWithdrawalFee(po, down) ==
    LET m == po.exchanges
        quoted == UNION {{<< v, c >> : c \in m.quotes[v]} : v \in m.exchanges \ {down}}
    IN [po EXCEPT !.withdrawal_fee =
           [known |-> TRUE, nodes |-> quoted \cap po.currency_set]]

\* get_var_location(); down as in init_currency_info
GetVarLocation(po, down) ==
    LET m == po.exchanges
        listed == {v \in m.exchanges : v \in po.loaded \/ v # down}
        intra == UNION {UNION {{<< << v, pair[1] >>, << v, pair[2] >> >>,
                                << << v, pair[2] >>, << v, pair[1] >> >>} :
                                 pair \in {q \in m.markets[v] :
                                             /\ << v, q[1] >> \in po.currency_set
                                             /\ << v, q[2] >> \in po.currency_set}} :
                        v \in listed}
        forth == {e \in po.inter_convert_list : e[1] \in po.withdrawal_fee.nodes}
        back == {<< e[2], e[1] >> : e \in {i \in po.inter_convert_list :
                                             i[2] \in po.withdrawal_fee.nodes}}
    IN [po EXCEPT !.loaded = listed, !.var_location = intra \cup forth \cup back]

SetConstraintsUnbalanced(po) ==
    IF po.var_location = {} THEN po
    ELSE [po EXCEPT !.constraints =
             {"max_one_in", "max_one_out"}
             \cup (IF po.path_length.t = "int" /\ po.path_length.n > 0
                   THEN {"path_len"} ELSE {})]

\* set_constraints(): the constraints the model holds afterwards
SetConstraints(po) ==
    IF po.var_location = {} THEN po
    ELSE [po EXCEPT !.constraints =
             {"flow_balance", "max_one_in", "max_one_out"}
             \cup (IF po.path_length.t = "int" /\ po.path_length.n > 0
                   THEN {"path_len"} ELSE {})]

\* _run_time_init()
RunTimeInit(po, down, cmc_up) ==
    LET p1 == InitCurrencyInfo(po, down, cmc_up)
        r2 == GetInterConvertList(p1)
        p3 == UpdateWithdrawalFee(r2.po, down)
        p4 == GetVarLocation(p3, down)
        p5 == [p4 EXCEPT !.var = Cardinality(p4.var_location), !.x = p4.var_location,
                         !.inits = @ + 1]
    IN IF r2.exc # "" THEN [exc |-> r2.exc, po |-> r2.po]
       ELSE [exc |-> "", po |-> SetConstraints(p5)]

\* refresh_time of set_params
refresh_time == 1000

\* update_ref_coin_price()
UpdateRefCoinPrice(po, cmc_up) ==
    LET m == po.exchanges
        coin_set == {Coin(n) : n \in po.currency_set}
    IN IF ~m.cmc_api_key THEN po
       ELSE IF po.crypto_prices = {}
       THEN IF coin_set # {}
            THEN [po EXCEPT !.crypto_prices = GetCryptoPrices(m, coin_set, cmc_up)]
            ELSE po
       ELSE [po EXCEPT !.crypto_prices = GetCryptoPrices(m, po.crypto_prices, cmc_up)]

\* update_commission_fee(): the non-zero entries of commission_matrix, as the
\* logarithm of 1 - fee with its sign turned
UpdateCommissionFee(po) ==
    LET m == po.exchanges
        intra == {e \in po.currency_set \X po.currency_set :
                     Venue(e[1]) = Venue(e[2]) /\ e[1] # e[2]}
        forth == {e \in po.inter_convert_list : e[1] \in po.withdrawal_fee.nodes}
        back == {<< e[2], e[1] >> : e \in {i \in po.inter_convert_list :
                                             i[2] \in po.withdrawal_fee.nodes}}
    IN [po EXCEPT !.rebuilt = @ \cup {"commission_matrix"}, !.commission_matrix =
           [e \in intra \cup forth \cup back |->
               IF Venue(e[1]) = Venue(e[2]) THEN m.fee[Venue(e[1])] ELSE usd_rate]]

FirstRunAlways(po) == TRUE

\* find_arbitrage(), line 99: whether _run_time_init() is due
FirstRun(po) == po.run_times = 0

\* find_arbitrage(), lines 102-105
Refresh(po, down, cmc_up) ==
    IF po.run_times % refresh_time = 0
    THEN UpdateCommissionFee(UpdateRefCoinPrice(UpdateWithdrawalFee(po, down), cmc_up))
    ELSE po

\* whether simulated_bal has the shape update_balance() reads: venue -> coin -> amount
Balances(v) == v.t = "dict" /\ v.s = "balances"

\* update_balance(), lines 291-304, over the balances of the venues in fetched
BalanceDict(po, fetched) ==
    LET m == po.exchanges
        held == {n \in po.currency_set :
                    /\ Venue(n) \in fetched
                    /\ Coin(n) \in DOMAIN m.balance[Venue(n)]
                    /\ Coin(n) \in po.crypto_prices}
    IN [n \in held |-> m.balance[Venue(n)][Coin(n)]]

\* update_balance() from line 285 on; outputList is what multiThread returned
\* (TRUE for a balance table, FALSE for the None of a failed fetch)
MergeBalance(po, outputList) ==
    IF po.simulated_bal.t = "null"
    THEN IF \E v \in DOMAIN outputList : ~outputList[v]
         THEN [exc |-> "AttributeError", po |-> po]
         ELSE [exc |-> "", po |-> [po EXCEPT !.balance_dict = BalanceDict(po, DOMAIN outputList)]]
    ELSE IF ~Balances(po.simulated_bal)
    THEN [exc |-> "AttributeError", po |-> po]
    ELSE [exc |-> "", po |-> [po EXCEPT !.balance_dict = BalanceDict(po, po.exchanges.exchanges)]]

\* the market of an intra-venue edge, if the venue lists one
MarketOf(m, e) ==
    LET v == Venue(e[1]) IN
    IF << Coin(e[1]), Coin(e[2]) >> \in m.markets[v] THEN << Coin(e[1]), Coin(e[2]) >>
    ELSE << Coin(e[2]), Coin(e[1]) >>

Forward(m, e) == << Coin(e[1]), Coin(e[2]) >> \in m.markets[Venue(e[1])]

\* the edges of the markets whose tickers are in self.price
PricedEdges(po) ==
    {e \in po.currency_set \X po.currency_set :
        /\ Venue(e[1]) = Venue(e[2])
        /\ << Venue(e[1]), MarketOf(po.exchanges, e) >> \in po.price}

\* update_transit_price() from line 218 on: the non-zero entries of
\* transit_price_matrix, as logarithms
UpdateTransitPrice(po, fetched) ==
    LET m == po.exchanges
        p1 == [po EXCEPT !.price =
                  UNION {{<< v, pair >> : pair \in m.markets[v]} : v \in fetched}]
        intra == {e \in PricedEdges(p1) : m.tickers[Venue(e[1])][MarketOf(m, e)].quoted}
        forth == {e \in po.inter_convert_list : e[1] \in po.withdrawal_fee.nodes}
        back == {<< e[2], e[1] >> : e \in {i \in po.inter_convert_list :
                                             i[2] \in po.withdrawal_fee.nodes}}
    IN [p1 EXCEPT !.rebuilt = @ \cup {"transit_price_matrix"}, !.transit_price_matrix =
           [e \in intra \cup forth \cup back |->
               IF Venue(e[1]) # Venue(e[2]) THEN 0
               ELSE IF Forward(m, e) THEN m.tickers[Venue(e[1])][MarketOf(m, e)].bid
               ELSE 0 - m.tickers[Venue(e[1])][MarketOf(m, e)].ask]]

\* np.inf as a balance
inf == 1000000

UsdBalance(po, node) ==
    IF ~po.consider_inter_exc_bal THEN inf
    ELSE IF node \in DOMAIN po.balance_dict THEN po.balance_dict[node] ELSE 0

\* update_vol_matrix(): the non-zero entries of vol_matrix, in USD
UpdateVolMatrix(po) ==
    LET m == po.exchanges
        intra == {e \in PricedEdges(po) : MarketOf(m, e)[1] \in po.crypto_prices}
        forth == {e \in po.inter_convert_list : e[1] \in po.withdrawal_fee.nodes}
        back == {<< e[2], e[1] >> : e \in {i \in po.inter_convert_list :
                                             i[2] \in po.withdrawal_fee.nodes}}
    IN [po EXCEPT !.rebuilt = @ \cup {"vol_matrix"}, !.vol_matrix =
           [e \in intra \cup forth \cup back |->
               IF Venue(e[1]) = Venue(e[2]) THEN m.tickers[Venue(e[1])][MarketOf(m, e)].vol
               ELSE UsdBalance(po, e[2]) + usd_fee]]

\* value >= self.min_trading_limit, the limit held in tenths
AtLeastLimit(po, usd) == 10 * usd >= po.min_trading_limit.n

\* sorted(coin_balance_list, key = usd balance, reverse = True)
RECURSIVE ByBalance(_, _)
ByBalance(po, nodes) ==
    IF nodes = {} THEN << >>
    ELSE LET top == CHOOSE n \in nodes : \A o \in nodes :
                        \/ po.balance_dict[n] > po.balance_dict[o]
                        \/ po.balance_dict[n] = po.balance_dict[o] /\ Index(n) <= Index(o)
         IN << top >> \o ByBalance(po, nodes \ {top})

Range(seq) == {seq[i] : i \in DOMAIN seq}

\* update_changeable_constraint(), lines 626-628, 638-640, 679-680: the
\* constraint is removed if the model holds it
Removed(po) ==
    [po EXCEPT !.changeable = NoChangeable,
               !.constraint_ops = IF po.changeable.on THEN {"remove"} ELSE {}]

\* update_changeable_constraint()
UpdateChangeableConstraint(po) ==
    IF ~po.consider_init_bal THEN po
    ELSE LET new_required_currencies ==
                 ByBalance(po, {n \in DOMAIN po.balance_dict :
                                  AtLeastLimit(po, po.balance_dict[n])})
             is_same_as_before == new_required_currencies = po.required_currencies
             p1 == [po EXCEPT !.required_currencies = new_required_currencies,
                              !.constraint_ops = {}]
             required_cur_indices == Range(new_required_currencies) \cap po.currency_set
         IN IF new_required_currencies = << >> THEN Removed(p1)
            ELSE IF is_same_as_before /\ po.changeable.on THEN p1
            ELSE IF required_cur_indices = {} THEN Removed(p1)
            ELSE IF po.var > 0
                 THEN [Removed(p1) EXCEPT
                          !.changeable = [on |-> TRUE, idx |-> required_cur_indices],
                          !.constraint_ops = @ \cup {"add"}]
                 ELSE Removed(p1)

\* -np.inf as the coefficient of an edge: below every sum of finite ones
NegInf == -1000

\* update_objectives(), lines 410-424: the coefficient of each variable
SetObjective(po) ==
    [po EXCEPT !.objective =
        [e \in po.x |->
            IF /\ e \in DOMAIN po.transit_price_matrix
               /\ AtLeastLimit(po, IF e \in DOMAIN po.vol_matrix THEN po.vol_matrix[e] ELSE 0)
            THEN po.transit_price_matrix[e]
                 - (IF e \in DOMAIN po.commission_matrix THEN po.commission_matrix[e] ELSE 0)
            ELSE NegInf]]

\* update_objectives() after the tickers are in
UpdateObjectives(po, fetched) ==
    SetObjective(UpdateChangeableConstraint(UpdateVolMatrix(UpdateTransitPrice(po, fetched))))

OutOf(X, n) == Cardinality({e \in X : e[1] = n})
InTo(X, n) == Cardinality({e \in X : e[2] = n})

\* the assignments of the variables that satisfy the constraints of the model
Feasible(po) ==
    {X \in SUBSET po.x :
        /\ "flow_balance" \in po.constraints
              => \A n \in po.currency_set : OutOf(X, n) = InTo(X, n)
        /\ "max_one_in" \in po.constraints => \A n \in po.currency_set : OutOf(X, n) <= 1
        /\ "max_one_out" \in po.constraints => \A n \in po.currency_set : InTo(X, n) <= 1
        /\ "path_len" \in po.constraints => Cardinality(X) <= po.path_length.n
        /\ po.changeable.on => Cardinality({e \in X : e[1] \in po.changeable.idx}) >= 1}

RECURSIVE ObjectiveValue(_, _)
ObjectiveValue(po, X) ==
    IF X = {} THEN 0
    ELSE LET e == CHOOSE y \in X : TRUE IN po.objective[e] + ObjectiveValue(po, X \ {e})

\* solve(): the solutions it may return
Optimal(po) ==
    {X \in Feasible(po) :
        \A Y \in Feasible(po) : ObjectiveValue(po, Y) <= ObjectiveValue(po, X)}

\* np.exp(objective_value) - 1, in sixteenths
ExpM1(v) ==
    IF v >= 0 THEN 16 * (2 ^ v - 1)
    ELSE IF v >= -4 THEN 2 ^ (4 + v) - 16
    ELSE -16

\* list(zip(*np.nonzero(self.xs))): the selected edges in row order
RECURSIVE RowOrder(_)
RowOrder(X) ==
    IF X = {} THEN << >>
    ELSE LET e == CHOOSE y \in X : \A z \in X : EdgeIndex(y) <= EdgeIndex(z)
         IN << e >> \o RowOrder(X \ {e})

\* path_segments[start] of _sort_list: the last listed segment that starts there
Segment(tuple_list, start) ==
    tuple_list[CHOOSE i \in DOMAIN tuple_list :
                  /\ tuple_list[i][1] = start
                  /\ \A j \in DOMAIN tuple_list : tuple_list[j][1] = start => j <= i]

Starts(tuple_list) == {tuple_list[i][1] : i \in DOMAIN tuple_list}

\* the loop of _sort_list, lines 553-565, with rounds left to run
RECURSIVE Walk(_, _, _, _)
Walk(tuple_list, current_segment, sorted_path, rounds) ==
    IF rounds = 0 \/ current_segment \in Range(sorted_path) THEN sorted_path
    ELSE LET added == Append(sorted_path, current_segment)
             next_start_node == current_segment[2]
         IN IF next_start_node \notin Starts(tuple_list) THEN added
            ELSE LET next == Segment(tuple_list, next_start_node) IN
                 IF next = added[1] /\ Len(added) = Len(tuple_list) THEN added
                 ELSE Walk(tuple_list, next, added, rounds - 1)

\* _sort_list(tuple_list)
SortList(po, tuple_list) ==
    IF tuple_list = << >> THEN << >>
    ELSE LET preferred == {i \in DOMAIN po.required_currencies :
                              po.required_currencies[i] \in Starts(tuple_list)}
             ends == {Segment(tuple_list, n)[2] : n \in Starts(tuple_list)}
             true_starts == Starts(tuple_list) \ ends
             start_node ==
                 IF preferred # {}
                 THEN po.required_currencies[CHOOSE i \in preferred : \A j \in preferred : i <= j]
                 ELSE IF true_starts # {}
                 THEN CHOOSE n \in true_starts : \A o \in true_starts : Index(n) <= Index(o)
                 ELSE tuple_list[1][1]
         IN Walk(tuple_list, Segment(tuple_list, start_node), << >>, Len(tuple_list))

WithoutSolutionKeeping(po) ==
    [po EXCEPT !.ms = NoSolution, !.run_times = @ + 1, !.step = "out"]

\* find_arbitrage(), lines 109-131: no solution, or values that cannot be read
WithoutSolution(po) ==
    [po EXCEPT !.ms = NoSolution, !.obj = 0, !.path = << >>, !.run_times = @ + 1,
               !.step = "out"]

\* find_arbitrage(), lines 117-145: the solution X read back
WithSolution(po, X) ==
    [po EXCEPT !.ms = [found |-> TRUE, edges |-> X],
               !.xs = X,
               !.path = SortList(po, RowOrder(X)),
               !.obj = ExpM1(ObjectiveValue(po, X)),
               !.run_times = @ + 1,
               !.step = "out"]

\* have_opportunity()
HaveOpportunity(po) == po.path # << >> /\ po.obj > 0

\* ------------------------------------------------------------------------
\* Bounds of the model
\* ------------------------------------------------------------------------
\* worker processes launched in one behaviour
MaxRuns == 2
\* iterations of the main loop of one worker that are followed step by step
MaxIter == 2
\* one-second sub-sleeps between two iterations (the code sleeps 20 x 1s)
SleepTicks == 2

Workers == 1..MaxRuns

\* the JSON bodies the request-serving layer posts to /start_arbitrage
RouteBodies ==
    { << >>,
      ("path_length" :> VStr("3")),
      ("orderbook_n" :> VList(1)) }

VARIABLES
    status,                    \* self.status of the controlling process
    error_message,             \* self.error_message of the controlling process
    last_opportunity,          \* self.last_opportunity of the controlling process
    process,                   \* self.process: 0 for None, else the worker
    stop_event,                \* the multiprocessing.Event, shared by all processes
    current_optimizer_params,  \* self.current_optimizer_params of the controlling process
    ccxt_exchange_instances,   \* whether __init__ built at least one exchange instance
    workers,                   \* the worker processes and their copies of self
    tpc,                       \* where each request thread is in start() / stop()
    supplied,                  \* whether the thread's start request carried overrides
    params_dict,               \* the override map handed to set_optimizer_parameters
    last_call,                 \* the call that returned last, and what it returned
    trade_history,             \* the lines of self.trade_history_file, oldest first
    pool                       \* a call of multiThread / killable_multiThread under way

vars == << status, error_message, last_opportunity, process, stop_event,
           current_optimizer_params, ccxt_exchange_instances, workers, tpc,
           supplied, params_dict, last_call, trade_history, pool >>

AliveAt == {"boot", "construct", "init_universe", "loop_top", "find",
            "opportunity", "sleep_check", "sleeping", "after_sleep", "after_loop"}

\* Process.is_alive()
IsAlive(w) == workers[w].pc \in AliveAt

Born(w) == workers[w].pc # "unborn"

Unborn ==
    [pc |-> "unborn", status |-> "idle", error_message |-> "", last_opportunity |-> 0,
     params |-> default_optimizer_params, slept |-> 0,
     sigterm |-> FALSE, with_overrides |-> FALSE, po |-> NoOptimizer]

\* a dead process that self.process no longer refers to
Forgotten == [Unborn EXCEPT !.pc = "gone"]

\* self.process stops referring to process w
Untrack(ws, w) ==
    IF w # 0 /\ ws[w].pc \in {"exited", "raised", "killed"}
    THEN [ws EXCEPT ![w] = Forgotten]
    ELSE ws

NoCall == [op |-> "none", outcome |-> ""]

\* no call of multiThread / killable_multiThread is followed step by step
NoPool == [phase |-> "none"]

\* the request threads of the controlling layer
Callers == {1, 2}

\* ArbitrageRunner.__init__
InitRunner ==
    /\ ccxt_exchange_instances \in BOOLEAN
    /\ status = IF ccxt_exchange_instances THEN "idle" ELSE "error"
    /\ error_message = IF ccxt_exchange_instances THEN "" ELSE "init_errors"
    /\ last_opportunity = 0
    /\ process = 0
    /\ stop_event = FALSE
    /\ current_optimizer_params = default_optimizer_params
    /\ workers = [w \in Workers |-> Unborn]
    /\ supplied = [t \in Callers |-> FALSE]
    /\ last_call = NoCall
    /\ trade_history = << >>
    /\ pool = NoPool

\* one request thread serves the calls: thread 2 is absent
OneCaller == [t \in Callers |-> IF t = 1 THEN "idle" ELSE "absent"]

Init == InitRunner /\ tpc = OneCaller /\ params_dict = << >>

\* two request threads, the exchange instances built
InitConc ==
    /\ InitRunner
    /\ ccxt_exchange_instances
    /\ tpc = [t \in Callers |-> "idle"]
    /\ params_dict = << >>

\* ------------------------------------------------------------------------
\* The controlling process: get_status(), start(), stop(), the start route
\* ------------------------------------------------------------------------
\* process_alive of get_status()
ProcessAlive == process # 0 /\ IsAlive(process)

FoundDeadUnlessStarting ==
    /\ process # 0
    /\ ~IsAlive(process)
    /\ status \notin {"stopped", "error", "idle", "stopping", "starting"}

\* get_status(): "process found dead unexpectedly"
FoundDead ==
    /\ process # 0
    /\ ~IsAlive(process)
    /\ status \notin {"stopped", "error", "idle", "stopping"}

StatusAfterGetAnyDead == IF process # 0 /\ ~IsAlive(process) THEN "error" ELSE status

\* get_status(): self.status after the call
StatusAfterGet == IF FoundDead THEN "error" ELSE status

\* get_status(): self.error_message after the call
ErrorAfterGet ==
    IF FoundDead /\ error_message \in {"None", ""} THEN "died" ELSE error_message

Returned(op, outcome) == [op |-> op, outcome |-> outcome]

GetStatus(t) ==
    /\ tpc[t] = "idle"
    /\ status' = StatusAfterGet
    /\ error_message' = ErrorAfterGet
    /\ last_call' = Returned("get_status", IF FoundDead THEN "found_dead" ELSE "")
    /\ UNCHANGED << trade_history, pool >>
    /\ UNCHANGED << last_opportunity, process, stop_event, current_optimizer_params,
                    ccxt_exchange_instances, workers, tpc, supplied, params_dict >>

\* start_arbitrage_route up to its call of runner.start()
StartArbitrageRoute(t, body) ==
    /\ tpc[t] = "idle"
    /\ status' = StatusAfterGet
    /\ error_message' = ErrorAfterGet
    /\ IF StatusAfterGet = "running" \/ ProcessAlive
       THEN /\ last_call' = Returned("start_route", "busy")
            /\ UNCHANGED << current_optimizer_params, tpc, supplied >>
       ELSE IF DOMAIN body # {}
       THEN LET r == SetOptimizerParameters(body) IN
            /\ current_optimizer_params' = r.params
            /\ IF r.exc # ""
               THEN /\ last_call' = Returned("start_route", "bad_params")
                    /\ UNCHANGED << tpc, supplied >>
               ELSE /\ tpc' = [tpc EXCEPT ![t] = "start"]
                    /\ supplied' = [supplied EXCEPT ![t] = TRUE]
                    /\ UNCHANGED last_call
       ELSE /\ tpc' = [tpc EXCEPT ![t] = "start"]
            /\ supplied' = [supplied EXCEPT ![t] = FALSE]
            /\ UNCHANGED << current_optimizer_params, last_call >>
    /\ UNCHANGED << trade_history, pool >>
    /\ UNCHANGED << last_opportunity, process, stop_event, ccxt_exchange_instances,
                    workers, params_dict >>

StartRejectedByStatus == status = "running"

\* start(): "already running or starting"
StartRejected == status = "running" \/ ProcessAlive

FreeWorkers == {w \in Workers : ~Born(w)}
Launching == {t \in Callers : tpc[t] = "start_launch"}

\* start(), lines 349-351: the guard
Start(t) ==
    /\ tpc[t] \in {"idle", "start"}
    /\ IF StartRejected
       THEN /\ tpc' = [tpc EXCEPT ![t] = "idle"]
            /\ supplied' = [supplied EXCEPT ![t] = FALSE]
            /\ last_call' = Returned("start", "rejected")
       ELSE /\ Cardinality(FreeWorkers) > Cardinality(Launching)
            /\ tpc' = [tpc EXCEPT ![t] = "start_launch"]
            /\ supplied' = [supplied EXCEPT ![t] = (tpc[t] = "start" /\ supplied[t])]
            /\ UNCHANGED last_call
    /\ UNCHANGED << trade_history, pool >>
    /\ UNCHANGED << status, error_message, last_opportunity, process, stop_event,
                    current_optimizer_params, ccxt_exchange_instances, workers,
                    params_dict >>

EventKept == stop_event

\* start(), line 354: self.stop_event.clear()
EventAfterStart == FALSE

\* the copy of self that the new process runs on
Forked(with_overrides) ==
    [pc |-> "boot", status |-> "starting", error_message |-> "None",
     last_opportunity |-> 0, params |-> current_optimizer_params,
     slept |-> 0, sigterm |-> FALSE, with_overrides |-> with_overrides,
     po |-> NoOptimizer]

\* start(), lines 353-361: clear the event, reset, launch the process
StartLaunch(t) ==
    /\ tpc[t] = "start_launch"
    /\ LET w == CHOOSE x \in FreeWorkers : \A y \in FreeWorkers : x <= y IN
       /\ process' = w
       /\ workers' = [Untrack(workers, process) EXCEPT ![w] = Forked(supplied[t])]
    /\ stop_event' = EventAfterStart
    /\ error_message' = "None"
    /\ last_opportunity' = 0
    /\ status' = "starting"
    /\ tpc' = [tpc EXCEPT ![t] = "idle"]
    /\ supplied' = [supplied EXCEPT ![t] = FALSE]
    /\ last_call' = Returned("start", "launched")
    /\ UNCHANGED << trade_history, pool >>
    /\ UNCHANGED << current_optimizer_params, ccxt_exchange_instances, params_dict >>

\* stop(), lines 365-369: self.status after a stop with no live worker
StatusAfterIdleStop ==
    IF status \notin {"stopped", "error", "idle"} THEN "stopped" ELSE status

\* stop(), lines 385-386
StatusAfterStop(st) == IF st # "error" THEN "stopped" ELSE st

ProcessKept == process

\* stop(), line 389: self.process = None
ProcessAfterStop == 0

\* stop(), lines 365-373
Stop(t) ==
    /\ tpc[t] = "idle"
    /\ IF ~ProcessAlive
       THEN /\ status' = StatusAfterIdleStop
            /\ last_call' = Returned("stop", "noop")
            /\ UNCHANGED << stop_event, tpc >>
       ELSE /\ status' = "stopping"
            /\ stop_event' = TRUE
            /\ tpc' = [tpc EXCEPT ![t] = "stop_join"]
            /\ UNCHANGED last_call
    /\ UNCHANGED << trade_history, pool >>
    /\ UNCHANGED << error_message, last_opportunity, process, current_optimizer_params,
                    ccxt_exchange_instances, workers, supplied, params_dict >>

\* stop(), lines 375-389: join(timeout=60) has returned
StopJoin(t) ==
    /\ tpc[t] = "stop_join"
    /\ IF process = 0
       THEN \* another stop() has cleared self.process: AttributeError
            /\ tpc' = [tpc EXCEPT ![t] = "idle"]
            /\ last_call' = Returned("stop", "raised")
            /\ UNCHANGED << status, process, workers >>
       ELSE IF IsAlive(process)
       THEN \* the grace period elapsed: terminate()
            /\ workers' = [workers EXCEPT ![process].sigterm = TRUE]
            /\ tpc' = [tpc EXCEPT ![t] = "stop_term"]
            /\ UNCHANGED << status, process, last_call >>
       ELSE /\ status' = StatusAfterStop(status)
            /\ process' = ProcessAfterStop
            /\ tpc' = [tpc EXCEPT ![t] = "idle"]
            /\ last_call' = Returned("stop", "graceful")
            /\ workers' = Untrack(workers, process)
    /\ UNCHANGED << trade_history, pool >>
    /\ UNCHANGED << error_message, last_opportunity, stop_event,
                    current_optimizer_params, ccxt_exchange_instances, supplied,
                    params_dict >>

\* stop(), lines 380-389: join(timeout=10) has returned, the worker dead or not
StopTerminate(t) ==
    /\ tpc[t] = "stop_term"
    /\ tpc' = [tpc EXCEPT ![t] = "idle"]
    /\ IF process = 0
       THEN /\ last_call' = Returned("stop", "raised")
            /\ UNCHANGED << status, process, workers >>
       ELSE /\ status' = StatusAfterStop("stopped")
            /\ process' = ProcessAfterStop
            /\ last_call' = Returned("stop", "forced")
            /\ workers' = Untrack(workers, process)
    /\ UNCHANGED << trade_history, pool >>
    /\ UNCHANGED << error_message, last_opportunity, stop_event,
                    current_optimizer_params, ccxt_exchange_instances, supplied,
                    params_dict >>

\* ------------------------------------------------------------------------
\* A worker process: run_main_loop on its own copy of self
\* ------------------------------------------------------------------------
\* The process is gone: its memory is lost, only what it had recorded last is
\* kept here for the properties.  how: "exited" (run_main_loop returned),
\* "raised" (an exception left run_main_loop), "killed" (terminated or crashed)
Gone(w, how, st, em) ==
    IF process = w
    THEN [Unborn EXCEPT !.pc = how, !.status = st, !.error_message = em]
    ELSE Forgotten

\* self.error_message += text, then self.status = st and return: the process
\* after it.  += on None raises TypeError, which nothing catches.
AfterAppend(w, st_before, st_after) ==
    IF workers[w].error_message = "None"
    THEN Gone(w, "raised", st_before, "None")
    ELSE Gone(w, "exited", st_after, "appended")

RunnerOnly == << status, error_message, last_opportunity, process, stop_event,
                 current_optimizer_params, ccxt_exchange_instances, tpc, supplied,
                 params_dict, last_call >>

WorkerOnly == << RunnerOnly, trade_history, pool >>

\* run_main_loop, lines 186-195
WorkerBoot(w) ==
    /\ workers[w].pc = "boot"
    /\ workers' = [workers EXCEPT ![w] =
          IF workers[w].status = "error" THEN Gone(w, "exited", "error", workers[w].error_message)
          ELSE IF ~ccxt_exchange_instances THEN AfterAppend(w, "error", "error")
          ELSE [workers[w] EXCEPT !.pc = "construct"]]
    /\ UNCHANGED WorkerOnly

\* run_main_loop, lines 197-235: PathOptimizer, AmtOptimizer, TradeExecutor are
\* built from the parameters, which run_main_loop does not read again
Constructed(w, ok) ==
    IF ok THEN [workers[w] EXCEPT !.pc = "init_universe", !.status = "running",
                                  !.params = default_optimizer_params,
                                  !.with_overrides = FALSE]
    ELSE AfterAppend(w, workers[w].status, "error")

WorkerConstruct(w, ok) ==
    /\ workers[w].pc = "construct"
    /\ workers' = [workers EXCEPT ![w] = Constructed(w, ok)]
    /\ UNCHANGED WorkerOnly

\* run_main_loop, lines 236-246: init_currency_info()
UniverseReady(w, ok) ==
    IF ok THEN [workers[w] EXCEPT !.pc = "loop_top"]
    ELSE AfterAppend(w, "error", "error")

WorkerInitUniverse(w, ok) ==
    /\ workers[w].pc = "init_universe"
    /\ workers' = [workers EXCEPT ![w] = UniverseReady(w, ok)]
    /\ UNCHANGED WorkerOnly

\* run_main_loop, lines 250-253: while not self.stop_event.is_set()
WorkerLoopTop(w) ==
    /\ workers[w].pc = "loop_top"
    /\ workers' = [workers EXCEPT ![w] =
          IF stop_event THEN [workers[w] EXCEPT !.pc = "after_loop"]
          ELSE [workers[w] EXCEPT !.pc = "find"]]
    /\ UNCHANGED WorkerOnly

\* run_main_loop, lines 337-345: the except and finally clauses of the loop
Unhandled(w) == Gone(w, "exited", "error", "unhandled")

\* what have_opportunity() answers True to: a path that is a non-empty list
\* and a positive profit rate
Detected(po) ==
    [po EXCEPT !.path = << << << "v1", "A" >>, << "v1", "B" >> >>,
                              << << "v1", "B" >>, << "v1", "A" >> >> >>,
               !.obj = 1]

\* run_main_loop, lines 256-260 and 315-317: find_arbitrage(), have_opportunity()
AfterFind(w, outcome) ==
    CASE outcome = "raise" -> Unhandled(w)
      [] outcome = "opportunity" ->
           [workers[w] EXCEPT !.pc = "opportunity", !.status = "found_opportunity",
                              !.po = Detected(@)]
      [] OTHER ->
           [workers[w] EXCEPT !.pc = "sleep_check", !.slept = 0,
                              !.status = "running_no_opportunity"]

WorkerFind(w, outcome) ==
    /\ workers[w].pc = "find"
    /\ workers' = [workers EXCEPT ![w] = AfterFind(w, outcome)]
    /\ UNCHANGED WorkerOnly

\* the outcomes of the sizing stage: get_solution() raises, or it returns and
\* have_workable_solution() answers True or False
Sizings == {"raise", "workable", "unworkable"}

\* run_main_loop, lines 290-301: the status and the history status of a sized
\* opportunity; the call of TradeExecutor.execute is a comment
StatusAfterSizing(sizing) ==
    IF sizing = "workable" THEN "executed_trade_simulation"
    ELSE "opportunity_no_workable_solution"

HistoryEntryStatus(sizing) ==
    IF sizing = "workable" THEN "executed_trade_simulation_success"
    ELSE "opportunity_no_workable_solution"

\* run_main_loop, lines 261 and 267-268: get_solution() raises, or the path is
\* a non-empty list, which has no attribute nodes: AttributeError
OpportunityRaises(w, sizing) == sizing = "raise" \/ workers[w].po.path # << >>

\* run_main_loop, lines 277-301: last_opportunity and the status are set
Recorded(w, sizing) ==
    [workers[w] EXCEPT !.pc = "sleep_check", !.slept = 0,
                       !.status = StatusAfterSizing(sizing),
                       !.last_opportunity = 1]

\* run_main_loop, lines 261-313: the opportunity is sized, recorded and
\* appended to the trade history
WorkerOpportunity(w, sizing) ==
    /\ workers[w].pc = "opportunity"
    /\ IF OpportunityRaises(w, sizing)
       THEN /\ workers' = [workers EXCEPT ![w] = Unhandled(w)]
            /\ UNCHANGED trade_history
       ELSE /\ workers' = [workers EXCEPT ![w] = Recorded(w, sizing)]
            /\ trade_history' = Append(trade_history, HistoryEntryStatus(sizing))
    /\ UNCHANGED << RunnerOnly, pool >>

SleepOverByCount(w) == workers[w].slept = SleepTicks

\* run_main_loop, lines 321-323: the sleep loop is left on a set event or when
\* its range is used up
SleepOver(w) == stop_event \/ workers[w].slept = SleepTicks

\* run_main_loop, lines 321-324: the head of one round of the sleep loop
WorkerSleepCheck(w) ==
    /\ workers[w].pc = "sleep_check"
    /\ workers' = [workers EXCEPT ![w] =
          IF SleepOver(w)
          THEN [workers[w] EXCEPT !.pc = "after_sleep", !.slept = 0]
          ELSE [workers[w] EXCEPT !.pc = "sleeping"]]
    /\ UNCHANGED WorkerOnly

\* run_main_loop, line 325: time.sleep(sleep_interval)
WorkerSleep(w) ==
    /\ workers[w].pc = "sleeping"
    /\ workers' = [workers EXCEPT ![w] =
          [workers[w] EXCEPT !.pc = "sleep_check", !.slept = @ + 1]]
    /\ UNCHANGED WorkerOnly

\* run_main_loop, lines 327-329
WorkerAfterSleep(w) ==
    /\ workers[w].pc = "after_sleep"
    /\ workers' = [workers EXCEPT ![w] =
          IF stop_event THEN [workers[w] EXCEPT !.pc = "after_loop"]
          ELSE [workers[w] EXCEPT !.pc = "loop_top"]]
    /\ UNCHANGED WorkerOnly

\* run_main_loop, lines 331-335 and 342-345
WorkerAfterLoop(w) ==
    /\ workers[w].pc = "after_loop"
    /\ workers' = [workers EXCEPT ![w] =
          Gone(w, "exited", "stopped", workers[w].error_message)]
    /\ UNCHANGED WorkerOnly

\* the SIGTERM of Process.terminate() takes effect
WorkerTerminated(w) ==
    /\ IsAlive(w)
    /\ workers[w].sigterm
    /\ workers' = [workers EXCEPT ![w] =
          Gone(w, "killed", workers[w].status, workers[w].error_message)]
    /\ UNCHANGED WorkerOnly

\* the process dies on its own (killed by the system, a crash of the solver)
WorkerCrash(w) ==
    /\ IsAlive(w)
    /\ ~workers[w].sigterm
    /\ workers' = [workers EXCEPT ![w] =
          Gone(w, "killed", workers[w].status, workers[w].error_message)]
    /\ UNCHANGED WorkerOnly

WorkerStep(w) ==
    \/ WorkerBoot(w)
    \/ \E ok \in BOOLEAN : WorkerConstruct(w, ok)
    \/ \E ok \in BOOLEAN : WorkerInitUniverse(w, ok)
    \/ WorkerLoopTop(w)
    \/ \E outcome \in {"raise", "opportunity", "none"} : WorkerFind(w, outcome)
    \/ \E sizing \in Sizings : WorkerOpportunity(w, sizing)
    \/ WorkerSleepCheck(w)
    \/ WorkerSleep(w)
    \/ WorkerAfterSleep(w)
    \/ WorkerAfterLoop(w)
    \/ WorkerTerminated(w)
    \/ WorkerCrash(w)

CallerStep(t) ==
    \/ GetStatus(t)
    \/ \E body \in RouteBodies : StartArbitrageRoute(t, body)
    \/ Start(t)
    \/ StartLaunch(t)
    \/ Stop(t)
    \/ StopJoin(t)
    \/ StopTerminate(t)

Next ==
    \/ \E t \in Callers : CallerStep(t)
    \/ \E w \in Workers : WorkerStep(w)

\* one request thread: the calls of the controlling layer do not overlap
Spec == Init /\ [][Next]_vars

\* the calls of ArbitrageRunner itself, without the route in front of start()
RunnerCall(t) ==
    \/ GetStatus(t)
    \/ Start(t)
    \/ StartLaunch(t)
    \/ Stop(t)
    \/ StopJoin(t)
    \/ StopTerminate(t)

NextConc ==
    \/ \E t \in Callers : RunnerCall(t)
    \/ \E w \in Workers : WorkerStep(w)

\* two request threads: start(), stop() and get_status() calls may interleave
SpecConc == InitConc /\ [][NextConc]_vars

\* ------------------------------------------------------------------------
\* set_optimizer_parameters on its own, over bounded override maps
\* ------------------------------------------------------------------------
\* overridden keys in one map
MaxOverrides == 2

OverrideKeys == {ParamAssignments[i].key : i \in DOMAIN ParamAssignments}

OverrideValues ==
    {VInt(3), VInt(0), VFloat(25), VBool(TRUE), VBool(FALSE), VNone, VList(1),
     VDict(1), VStr("3"), VStr("abc"), VStr(""), VStr("True"), VStr("yes"),
     VStr("{\"USDT\": 5}"), VStr("[1]")}

OverrideMaps ==
    UNION {[K -> OverrideValues] :
             K \in {S \in SUBSET OverrideKeys : Cardinality(S) <= MaxOverrides}}

InitParams ==
    /\ InitRunner
    /\ ccxt_exchange_instances
    /\ tpc = OneCaller
    /\ params_dict \in OverrideMaps

\* a direct call of set_optimizer_parameters(params_dict)
SetParametersCall(t) ==
    /\ tpc[t] = "idle"
    /\ last_call = NoCall
    /\ LET r == SetOptimizerParameters(params_dict) IN
         /\ current_optimizer_params' = r.params
         /\ last_call' = Returned("set_optimizer_parameters", r.exc)
    /\ UNCHANGED << trade_history, pool >>
    /\ UNCHANGED << status, error_message, last_opportunity, process, stop_event,
                    ccxt_exchange_instances, workers, tpc, supplied, params_dict >>

NextParams == \E t \in Callers : SetParametersCall(t)

SpecParams == InitParams /\ [][NextParams]_vars

\* ------------------------------------------------------------------------
\* One worker with its PathOptimizer followed step by step: the markets the
\* exchange clients reach, the fetch threads of each iteration, the solver
\* ------------------------------------------------------------------------
\* the JSON bodies of the start requests followed
OptBodies ==
    { << >>,
      ("simulated_bal_json" :> VStr("{\"v1\": {\"A\": 30}}")),
      ("simulated_bal_json" :> VStr("{\"v1\": {\"A\": 30}}")) @@ ("path_length" :> VInt(0)),
      ("simulated_bal_json" :> VStr("{\"v1\": {\"A\": 30}}")) @@ ("path_length" :> VInt(2)),
      ("simulated_bal_json" :> VStr("{\"v1\": {\"A\": 30}}"))
          @@ ("inter_exchange_trading" :> VStr("false")),
      ("consider_init_bal" :> VBool(FALSE)) }

\* the runner right after /start_arbitrage with one of the bodies has launched
\* the first worker
InitOpt ==
    /\ ccxt_exchange_instances = TRUE
    /\ \E body \in OptBodies :
          /\ SetOptimizerParameters(body).exc = ""
          /\ current_optimizer_params = SetOptimizerParameters(body).params
    /\ status = "starting"
    /\ error_message = "None"
    /\ last_opportunity = 0
    /\ process = 1
    /\ stop_event = FALSE
    /\ workers = [w \in Workers |-> IF w = 1 THEN Forked(TRUE) ELSE Unborn]
    /\ supplied = [t \in Callers |-> FALSE]
    /\ last_call = Returned("start", "launched")
    /\ tpc = OneCaller
    /\ params_dict = << >>
    /\ trade_history = << >>
    /\ pool = NoPool

\* an exception leaves find_arbitrage(): run_main_loop, lines 337-341; the
\* optimizer as it was is kept for the properties
Raised(w, po) == IF process = w THEN [Unhandled(w) EXCEPT !.po = po] ELSE Unhandled(w)

Outages(po) == po.exchanges.exchanges \cup {"none"}

\* run_main_loop, lines 197-235, with the PathOptimizer it builds
OptConstruct(w, m, ok) ==
    /\ workers[w].pc = "construct"
    /\ workers' = [workers EXCEPT ![w] =
          IF ok THEN [Constructed(w, TRUE) EXCEPT
                         !.po = NewOptimizer(workers[w].params, m)]
          ELSE Constructed(w, FALSE)]
    /\ UNCHANGED WorkerOnly

\* run_main_loop, lines 236-246: init_currency_info() catches what the venues
\* and the price service raise
OptInitUniverse(w, down, cmc_up) ==
    /\ workers[w].pc = "init_universe"
    /\ down \in Outages(workers[w].po)
    /\ workers' = [workers EXCEPT ![w] =
          [UniverseReady(w, TRUE) EXCEPT
              !.po = InitCurrencyInfo(workers[w].po, down, cmc_up)]]
    /\ UNCHANGED WorkerOnly

\* multiThread(), lines 204-220: one thread per venue is started
StartThreads(po, step) ==
    [po EXCEPT !.threads = [running |-> po.exchanges.exchanges, outputList |-> << >>],
               !.step = step]

JoinedUnwaited(po) == TRUE

\* multiThread(), lines 221-222: every thread has been joined
Joined(po) == po.threads.running = {}

\* what went wrong around find_arbitrage() before update_objectives()
FailedAtBegin(po, down, cmc_up) ==
    IF po.run_times % refresh_time # 0 THEN {}
    ELSE (IF down \in po.exchanges.exchanges THEN {"venue"} ELSE {})
         \cup (IF po.exchanges.cmc_api_key /\ ~cmc_up THEN {"prices"} ELSE {})

\* find_arbitrage(), lines 97-107, and update_balance() up to line 287: the
\* balance fetches are started unless balances are simulated
FindBegin(w, down, cmc_up) ==
    /\ workers[w].pc = "find"
    /\ workers[w].po.step = "out"
    /\ workers[w].po.run_times < MaxIter
    /\ down \in Outages(workers[w].po)
    /\ LET po == [workers[w].po EXCEPT !.failed = FailedAtBegin(workers[w].po, down, cmc_up),
                                       !.rebuilt = {}]
           r == IF FirstRun(po) THEN RunTimeInit(po, down, cmc_up)
                ELSE [exc |-> "", po |-> po]
           p2 == Refresh(r.po, down, cmc_up)
       IN workers' = [workers EXCEPT ![w] =
             IF r.exc # "" THEN Raised(w, r.po)
             ELSE IF p2.simulated_bal.t = "null"
                  THEN [workers[w] EXCEPT !.po = StartThreads(p2, "balance")]
                  ELSE [workers[w] EXCEPT
                           !.po = [p2 EXCEPT !.threads = NoThreads, !.step = "balance"]]]
    /\ UNCHANGED WorkerOnly

\* eachThread(): the fetch of venue v returns, or fails
FetchThread(w, v, ok) ==
    /\ workers[w].pc = "find"
    /\ v \in workers[w].po.threads.running
    /\ workers' = [workers EXCEPT ![w].po =
          [@ EXCEPT !.threads = [running |-> @.running \ {v},
                                 outputList |-> (v :> ok) @@ @.outputList],
                    !.failed = IF ok THEN @ ELSE @ \cup {workers[w].po.step}]]
    /\ UNCHANGED WorkerOnly

\* update_balance(), lines 286-304, then update_transit_price(), lines 212-217:
\* the balances are merged and the ticker fetches are started
BalanceMerge(w) ==
    /\ workers[w].pc = "find"
    /\ workers[w].po.step = "balance"
    /\ Joined(workers[w].po)
    /\ LET r == MergeBalance(workers[w].po, workers[w].po.threads.outputList) IN
       workers' = [workers EXCEPT ![w] =
          IF r.exc # "" THEN Raised(w, r.po)
          ELSE [workers[w] EXCEPT !.po = StartThreads(r.po, "tickers")]]
    /\ UNCHANGED WorkerOnly

\* update_transit_price() from line 218 on and the rest of update_objectives()
TickerMerge(w) ==
    /\ workers[w].pc = "find"
    /\ workers[w].po.step = "tickers"
    /\ Joined(workers[w].po)
    /\ LET po == workers[w].po
           fetched == {v \in DOMAIN po.threads.outputList : po.threads.outputList[v]}
       IN workers' = [workers EXCEPT ![w].po =
             [UpdateObjectives(po, fetched) EXCEPT !.step = "solve"]]
    /\ UNCHANGED WorkerOnly

\* find_arbitrage(), lines 108-145, then run_main_loop, lines 258-260 and
\* 315-317; solved is whether solve() and get_values() went through, which
\* they cannot when no assignment satisfies the constraints
FindSolve(w, solved) ==
    /\ workers[w].pc = "find"
    /\ workers[w].po.step = "solve"
    /\ \E po \in IF solved
                  THEN {WithSolution(workers[w].po, X) : X \in Optimal(workers[w].po)}
                  ELSE {WithoutSolution(workers[w].po)} :
          workers' = [workers EXCEPT ![w] =
             [AfterFind(w, IF HaveOpportunity(po) THEN "opportunity" ELSE "none")
                 EXCEPT !.po = po]]
    /\ UNCHANGED WorkerOnly

OptStep(w) ==
    \/ WorkerBoot(w)
    \/ \E m \in Markets, ok \in BOOLEAN : OptConstruct(w, m, ok)
    \/ \E down \in {"v1", "v2", "v3", "none"}, cmc_up \in BOOLEAN :
          OptInitUniverse(w, down, cmc_up)
    \/ WorkerLoopTop(w)
    \/ \E down \in {"v1", "v2", "v3", "none"}, cmc_up \in BOOLEAN : FindBegin(w, down, cmc_up)
    \/ \E v \in {"v1", "v2", "v3"}, ok \in BOOLEAN : FetchThread(w, v, ok)
    \/ BalanceMerge(w)
    \/ TickerMerge(w)
    \/ \E solved \in BOOLEAN : FindSolve(w, solved)
    \/ \E sizing \in Sizings : WorkerOpportunity(w, sizing)
    \/ WorkerSleepCheck(w)
    \/ WorkerSleep(w)
    \/ WorkerAfterSleep(w)

\* no stop request arrives while the worker is followed
NextOpt == \E w \in Workers : OptStep(w)

SpecOpt == InitOpt /\ [][NextOpt]_vars

\* ------------------------------------------------------------------------
\* Properties
\* ------------------------------------------------------------------------
AliveWorkers == {w \in Workers : IsAlive(w)}

\* the states and sub-states that run_main_loop records
WorkerRecorded ==
    {"running", "found_opportunity", "executed_trade_simulation",
     "opportunity_no_workable_solution", "running_no_opportunity", "error"}

\* C1: what the worker records is what the controlling process reads: a
\* get_status() call made while the worker is alive returns the state the
\* worker has recorded, and one made after the worker recorded an error and
\* its message returns error with that message.
C1_WorkerStateVisible ==
    [][\A t \in Callers :
         (GetStatus(t) /\ process # 0 /\ workers[process].status \in WorkerRecorded)
         => /\ IsAlive(process) => status' = workers[process].status
            /\ (workers[process].status = "error"
                /\ workers[process].error_message # "None")
               => /\ status' = "error"
                  /\ error_message' = workers[process].error_message]_vars

\* C2: at most one worker process launched by the supervisor is alive.
C2_AtMostOneWorkerAlive == Cardinality(AliveWorkers) <= 1

\* C3: a start() (or a start request) made while the worker of the preceding
\* start() is alive is rejected: status, error text, last_opportunity, the
\* stop event and the process handle stay as they were, the call returns, and
\* no process is ever launched while that worker is alive.
C3_SecondStartRejected ==
    [][\A t \in Callers :
         /\ (Start(t) /\ ProcessAlive)
            => /\ UNCHANGED << status, error_message, last_opportunity, stop_event,
                               process, workers >>
               /\ tpc'[t] = "idle"
               /\ last_call' = Returned("start", "rejected")
         /\ (\E body \in RouteBodies : StartArbitrageRoute(t, body) /\ ProcessAlive)
            => /\ UNCHANGED << status, error_message, last_opportunity, stop_event,
                               process, workers, current_optimizer_params >>
               /\ tpc'[t] = "idle"
         /\ StartLaunch(t) => ~ProcessAlive]_vars

C3_Witness == last_call = Returned("start", "rejected") /\ ProcessAlive

\* C4: a stop() issued while a worker is alive is never blocked (each of its
\* waits is bounded, so its next step can always be taken), and once it has
\* returned get_status() computes process_alive = false.
C4_StopReturns ==
    /\ \A t \in Callers :
         /\ tpc[t] = "stop_join" => ENABLED StopJoin(t)
         /\ tpc[t] = "stop_term" => ENABLED StopTerminate(t)
    /\ (last_call.op = "stop" /\ last_call.outcome \in {"graceful", "forced"})
       => ~ProcessAlive

C4_Witness == last_call = Returned("stop", "forced") /\ AliveWorkers # {}

\* C5: a stop() never overwrites an error the worker had recorded before the
\* call: it returns with the state still error.
C5_ErrorSurvivesStop ==
    [][\A t \in Callers :
         (Stop(t) /\ process # 0 /\ workers[process].status = "error")
         => status' = "error"]_vars

\* the worker of the run started last, 0 before any start
LastLaunched ==
    IF \E w \in Workers : Born(w)
    THEN CHOOSE w \in Workers : Born(w) /\ \A x \in Workers : Born(x) => x <= w
    ELSE 0

\* C6: once the worker of the run started last is no longer alive, the next
\* get_status() call returns error or stopped.
C6_EndsInErrorOrStopped ==
    \A t \in Callers :
        (tpc[t] = "idle" /\ LastLaunched # 0 /\ ~IsAlive(LastLaunched))
        => StatusAfterGet \in {"error", "stopped"}

C6_Witness ==
    /\ last_call = Returned("get_status", "found_dead")
    /\ process # 0 /\ workers[process].pc = "killed"
    /\ status = "error"

\* C7: get_status() changes the supervisor in one case only: a launched
\* worker is dead and the state is not stopped, error, idle or stopping; then
\* the state becomes error with a non-empty message.  Otherwise state and
\* message stay; last_opportunity and the process handle always stay.
C7_GetStatusEffect ==
    [][\A t \in Callers :
         GetStatus(t)
         => /\ UNCHANGED << last_opportunity, process, stop_event, workers >>
            /\ IF /\ process # 0
                  /\ ~IsAlive(process)
                  /\ status \notin {"stopped", "error", "idle", "stopping"}
               THEN status' = "error" /\ error_message' \notin {"", "None"}
               ELSE UNCHANGED << status, error_message >>]_vars

C7_Witness ==
    /\ last_call = Returned("get_status", "found_dead")
    /\ error_message = "died"

\* C8: start() launches the worker with the stop event clear, and a worker
\* never leaves its loop on the stop event while no stop() has been issued
\* since its start (the state is still starting): it goes on to the next
\* detection iteration.
C8_RestartNotCancelled ==
    [][/\ \A t \in Callers : StartLaunch(t) => ~stop_event'
       /\ \A w \in Workers :
            (process = w /\ status = "starting" /\ IsAlive(w))
            => workers'[w].pc # "after_loop"]_vars

\* a second run, started after a stop() that had to terminate the first
\* worker, is in a detection iteration
C8_Witness ==
    /\ process = 2 /\ status = "starting" /\ workers[2].pc = "find"
    /\ workers[1].sigterm

\* C9: a run started without overrides runs on the configured defaults.
C9_DefaultsWithoutOverrides ==
    \A w \in Workers :
        (workers[w].pc = "boot" /\ ~workers[w].with_overrides)
        => workers[w].params = default_optimizer_params

\* the override values the parameter schema calls malformed for a field type
Malformed(type, v) ==
    CASE type \in {"int", "float"} ->
             \/ v.t \in {"list", "dict"}
             \/ v.t = "str" /\ v.s \notin BlankText /\ v.s \notin DOMAIN FloatText
      [] type = "bool" -> v.t = "str" /\ Lower(v.s) \notin {"true", "false"}
      [] OTHER -> v.t # "str"

\* the override values that are of the field's own type
WellTyped(type, v) ==
    CASE type = "int" -> v.t = "int"
      [] type = "float" -> v.t = "float"
      [] type = "bool" -> v.t = "bool"
      [] OTHER -> v.t = "str" /\ v.s \in DOMAIN JsonText /\ JsonText[v.s].t = "dict"

Applied(type, v) == IF type = "dict" THEN JsonText[v.s] ELSE v

\* C10: set_optimizer_parameters raises for no override map; a field whose
\* value is malformed or of the wrong type is left at its default, and every
\* well-typed override of the same call is applied.
C10_BadFieldFallsBack ==
    last_call.op = "set_optimizer_parameters" =>
        /\ last_call.outcome = ""
        /\ \A i \in DOMAIN ParamAssignments :
             LET a == ParamAssignments[i] IN
             a.key \in DOMAIN params_dict =>
                 LET v == params_dict[a.key] IN
                 /\ Malformed(a.type, v) =>
                        current_optimizer_params[a.name] = default_optimizer_params[a.name]
                 /\ WellTyped(a.type, v) =>
                        current_optimizer_params[a.name] = Applied(a.type, v)

\* ------------------------------------------------------------------------
\* The inter-venue part of the feasibility mask, computed from a fee table
\* that is loaded: update_withdrawal_fee(), get_inter_convert_list() and
\* get_var_location() applied to every table of quotes over two venues
\* ------------------------------------------------------------------------
\* two venues listing A/B, with every choice of the coins each fee page quotes
MaskMarkets ==
    {[TwoVenues EXCEPT !.quotes = q] : q \in [{"v1", "v2"} -> SUBSET {"A", "B"}]}

MaskBodies == {<< >>, ("inter_exchange_trading" :> VStr("false"))}

InitMask ==
    /\ ccxt_exchange_instances = TRUE
    /\ current_optimizer_params = default_optimizer_params
    /\ status = "starting"
    /\ error_message = "None"
    /\ last_opportunity = 0
    /\ process = 1
    /\ stop_event = FALSE
    /\ \E m \in MaskMarkets, body \in MaskBodies :
          workers = [w \in Workers |->
             IF w = 1
             THEN [Forked(TRUE) EXCEPT
                     !.pc = "find", !.status = "running",
                     !.po = [InitCurrencyInfo(
                                NewOptimizer(SetOptimizerParameters(body).params, m),
                                "none", TRUE)
                             EXCEPT !.step = "fees"]]
             ELSE Unborn]
    /\ supplied = [t \in Callers |-> FALSE]
    /\ last_call = Returned("start", "launched")
    /\ tpc = OneCaller
    /\ params_dict = << >>
    /\ trade_history = << >>
    /\ pool = NoPool

\* update_withdrawal_fee()
MaskFees(w, down) ==
    /\ workers[w].po.step = "fees"
    /\ workers' = [workers EXCEPT ![w].po =
          [UpdateWithdrawalFee(@, down) EXCEPT !.step = "pairs"]]
    /\ UNCHANGED WorkerOnly

\* get_inter_convert_list()
MaskPairs(w) ==
    /\ workers[w].po.step = "pairs"
    /\ workers' = [workers EXCEPT ![w].po =
          [GetInterConvertList(@).po EXCEPT !.step = "mask"]]
    /\ UNCHANGED WorkerOnly

\* get_var_location()
MaskVarLocation(w) ==
    /\ workers[w].po.step = "mask"
    /\ workers' = [workers EXCEPT ![w].po =
          [GetVarLocation(@, "none") EXCEPT !.step = "masked"]]
    /\ UNCHANGED WorkerOnly

NextMask ==
    \E w \in Workers :
        \/ \E down \in {"none", "v1", "v2"} : MaskFees(w, down)
        \/ MaskPairs(w)
        \/ MaskVarLocation(w)

SpecMask == InitMask /\ [][NextMask]_vars

\* ------------------------------------------------------------------------
\* multiThread() and killable_multiThread() of crypto/utils.py, one call
\* followed thread by thread.  An item of List is what func does with it;
\* indices are those of Python, from 0.
\* ------------------------------------------------------------------------
\* items of the input list
MaxItems == 3
\* the threadNum handed over
MaxThreadNum == 3

\* what func does with an item: return its value, raise, and for a killable
\* func also set the event and return, or set the event and raise
Behaviours(killable) ==
    IF killable THEN {"ok", "raise", "stop", "stop_raise"} ELSE {"ok", "raise"}

\* None as an entry of the result, and func(List[index]) when func returns
None == 0
FuncValue(index) == index + 1

\* list(range(i, n, step))
RangeStep(i, n, step) ==
    [k \in 1..((n - i + step - 1) \div step) |-> i + (k - 1) * step]

PartIndicesOfFirst(i, n, threadNum) == RangeStep(0, n, threadNum)

\* multiThread(), line 214, killable_multiThread(), line 277: the indices of
\* the items thread i is to process
PartIndices(i, n, threadNum) == RangeStep(i, n, threadNum)

\* x put into a list sorted by index, behind the entries of the same index
Insert(sorted, x) ==
    LET k == Cardinality({j \in DOMAIN sorted : sorted[j][1] <= x[1]})
    IN SubSeq(sorted, 1, k) \o << x >> \o SubSeq(sorted, k + 1, Len(sorted))

\* sorted(outputList, key=lambda x: x[0])
RECURSIVE SortedByIndex(_)
SortedByIndex(outputList) ==
    IF outputList = << >> THEN << >>
    ELSE Insert(SortedByIndex(SubSeq(outputList, 1, Len(outputList) - 1)),
                outputList[Len(outputList)])

\* final_results: [x[1] for x in outputList]
FinalResults(outputList) ==
    [k \in DOMAIN outputList |-> SortedByIndex(outputList)[k][2]]

\* the runner idle, and a call multiThread(func, List, threadNum) or
\* killable_multiThread(func, List, threadNum) just made
InitPool ==
    /\ ccxt_exchange_instances = TRUE
    /\ status = "idle"
    /\ error_message = ""
    /\ last_opportunity = 0
    /\ process = 0
    /\ stop_event = FALSE
    /\ current_optimizer_params = default_optimizer_params
    /\ workers = [w \in Workers |-> Unborn]
    /\ supplied = [t \in Callers |-> FALSE]
    /\ last_call = NoCall
    /\ tpc = OneCaller
    /\ params_dict = << >>
    /\ trade_history = << >>
    /\ \E killable \in BOOLEAN, n \in 0..MaxItems, threadNum \in 0..MaxThreadNum :
          \E List \in [1..n -> Behaviours(killable)] :
             pool = [phase |-> "called", killable |-> killable, List |-> List,
                     threadNum |-> threadNum, i |-> 0, threads |-> << >>,
                     outputList |-> << >>, event |-> FALSE,
                     calls |-> [j \in 0..(n - 1) |-> 0], final |-> << >>]

PoolOnly == << RunnerOnly, workers, trade_history >>

\* multiThread(), lines 205-211, killable_multiThread(), lines 265-272
PoolBegin ==
    /\ pool.phase = "called"
    /\ pool' = IF pool.List = << >>
               THEN [pool EXCEPT !.phase = "returned", !.final = << >>]
               ELSE [pool EXCEPT !.phase = "spawning",
                                 !.threadNum = IF @ <= 0 THEN 1 ELSE @]
    /\ UNCHANGED PoolOnly

\* a thread that has not begun its first item
NewThread(num) ==
    [num |-> num, at |-> 1, pc |-> IF pool.killable THEN "check" ELSE "call"]

\* multiThread(), lines 213-220, killable_multiThread(), lines 274-282: one
\* round of the loop that starts the threads
PoolSpawn ==
    /\ pool.phase = "spawning"
    /\ LET num == PartIndices(pool.i, Len(pool.List), pool.threadNum)
           last == pool.i + 1 = pool.threadNum
       IN pool' = [pool EXCEPT
                     !.threads = IF num = << >> THEN @ ELSE (pool.i :> NewThread(num)) @@ @,
                     !.i = @ + 1,
                     !.phase = IF last THEN "joining" ELSE @]
    /\ UNCHANGED PoolOnly

\* the thread goes on to its next item, or its loop is over
Advanced(th) ==
    IF th.at = Len(th.num) THEN [th EXCEPT !.pc = "done"]
    ELSE [th EXCEPT !.at = @ + 1, !.pc = IF pool.killable THEN "check" ELSE "call"]

\* killable_eachThread(), lines 243-246: the event is looked at before the item
ThreadCheck(t) ==
    /\ pool.phase \in {"spawning", "joining"}
    /\ t \in DOMAIN pool.threads
    /\ pool.threads[t].pc = "check"
    /\ LET th == pool.threads[t] IN
         pool' = IF pool.event
                 THEN [pool EXCEPT
                         !.outputList = Append(@, << th.num[th.at], None >>),
                         !.threads[t] = Advanced(th)]
                 ELSE [pool EXCEPT !.threads[t].pc = "call"]
    /\ UNCHANGED PoolOnly

\* eachThread(), lines 191-197, killable_eachThread(), lines 247-253: func is
\* called with the item and what it returns, or None, is appended
ThreadCall(t) ==
    /\ pool.phase \in {"spawning", "joining"}
    /\ t \in DOMAIN pool.threads
    /\ pool.threads[t].pc = "call"
    /\ LET th == pool.threads[t]
           index == th.num[th.at]
           does == pool.List[index + 1]
           output == IF does \in {"raise", "stop_raise"} THEN None ELSE FuncValue(index)
       IN pool' = [pool EXCEPT
                     !.calls[index] = @ + 1,
                     !.event = @ \/ does \in {"stop", "stop_raise"},
                     !.outputList = Append(@, << index, output >>),
                     !.threads[t] = IF pool.killable THEN [th EXCEPT !.pc = "after"]
                                    ELSE Advanced(th)]
    /\ UNCHANGED PoolOnly

\* killable_eachThread(), lines 254-256: the event is looked at after the item
ThreadAfter(t) ==
    /\ pool.phase \in {"spawning", "joining"}
    /\ t \in DOMAIN pool.threads
    /\ pool.threads[t].pc = "after"
    /\ pool' = [pool EXCEPT !.threads[t] =
                  IF pool.event THEN [@ EXCEPT !.pc = "done"] ELSE Advanced(@)]
    /\ UNCHANGED PoolOnly

\* multiThread(), lines 221-229, killable_multiThread(), lines 284-290: every
\* thread is joined, the outputs are sorted and returned
PoolJoin ==
    /\ pool.phase = "joining"
    /\ \A t \in DOMAIN pool.threads : pool.threads[t].pc = "done"
    /\ pool' = [pool EXCEPT !.phase = "returned", !.final = FinalResults(pool.outputList)]
    /\ UNCHANGED PoolOnly

ThreadIds == 0..MaxThreadNum

NextPool ==
    \/ PoolBegin
    \/ PoolSpawn
    \/ \E t \in ThreadIds : ThreadCheck(t)
    \/ \E t \in ThreadIds : ThreadCall(t)
    \/ \E t \in ThreadIds : ThreadAfter(t)
    \/ PoolJoin

SpecPool == InitPool /\ [][NextPool]_vars

\* ------------------------------------------------------------------------
\* update_changeable_constraint() over balances that change from one
\* iteration to the next: one venue, the triangle market, every balance table
\* ------------------------------------------------------------------------
\* the updates followed
MaxUpdates == 2

\* the USD balances update_balance() may find for the coins of the venue
BalanceTables == [{"A", "B", "C"} -> {0, 20, 30}]

BalBodies == {<< >>, ("consider_init_bal" :> VBool(FALSE))}

InitBal ==
    /\ ccxt_exchange_instances = TRUE
    /\ current_optimizer_params = default_optimizer_params
    /\ status = "starting"
    /\ error_message = "None"
    /\ last_opportunity = 0
    /\ process = 1
    /\ stop_event = FALSE
    /\ \E body \in BalBodies :
          workers = [w \in Workers |->
             IF w = 1
             THEN [Forked(TRUE) EXCEPT
                     !.pc = "find", !.status = "running",
                     !.po = RunTimeInit(NewOptimizer(SetOptimizerParameters(body).params,
                                                     Triangle),
                                        "none", TRUE).po]
             ELSE Unborn]
    /\ supplied = [t \in Callers |-> FALSE]
    /\ last_call = Returned("start", "launched")
    /\ tpc = OneCaller
    /\ params_dict = << >>
    /\ trade_history = << >>
    /\ pool = NoPool

\* update_balance() finds the balances bal, then
\* update_changeable_constraint(); the iteration is counted as find_arbitrage()
\* counts it
BalUpdate(w, bal) ==
    /\ workers[w].po.made
    /\ workers[w].po.run_times < MaxUpdates
    /\ LET po == workers[w].po
           found == [po EXCEPT !.balance_dict = [n \in po.currency_set |-> bal[Coin(n)]]]
       IN workers' = [workers EXCEPT ![w].po =
             [UpdateChangeableConstraint(found) EXCEPT !.run_times = @ + 1]]
    /\ UNCHANGED WorkerOnly

NextBal == \E w \in Workers, bal \in BalanceTables : BalUpdate(w, bal)

SpecBal == InitBal /\ [][NextBal]_vars

\* ------------------------------------------------------------------------
\* Properties of the opportunity graph model and of the worker that runs it
\* ------------------------------------------------------------------------
Degree(path, n, k) == Cardinality({e \in Range(path) : e[k] = n})

\* the edges of path form closed walks: every node is left as often as entered
Closed(path) ==
    \A e \in Range(path) : \A k \in {1, 2} : Degree(path, e[k], 1) = Degree(path, e[k], 2)

\* the first call of find_arbitrage() is over: it returned, or an exception
\* left it
FirstIterationOver(w) ==
    \/ /\ workers[w].pc \in {"opportunity", "sleep_check"}
       /\ workers[w].po.run_times = 1
    \/ /\ workers[w].pc \in {"exited", "raised"}
       /\ workers[w].po.made
       /\ workers[w].po.run_times = 0

\* the two-venue scenario: pair A/B on both venues, fee quotes for both coins
\* on both venues, simulated balances, every service answering
TwoVenueScenario(w) ==
    LET po == workers[w].po IN
    /\ po.exchanges = TwoVenues
    /\ Balances(po.simulated_bal)
    /\ po.inter_exchange_trading
    /\ po.loaded = TwoVenues.exchanges
    /\ po.crypto_prices = {"A", "B"}
    /\ po.failed = {}

\* C11: in the two-venue scenario the first detection iteration returns a
\* closed walk of 2 or 4 edges with a profit rate above zero, and the worker's
\* state becomes found_opportunity.
C11_TwoVenueOpportunity ==
    \A w \in Workers :
        (TwoVenueScenario(w) /\ FirstIterationOver(w)) =>
            /\ Len(workers[w].po.path) \in {2, 4}
            /\ Closed(workers[w].po.path)
            /\ workers[w].po.obj > 0
            /\ workers[w].status = "found_opportunity"

\* C12: in every cycle find_arbitrage() returns, each node has as many
\* selected edges leaving it as entering it, and at most one of each.
C12_DegreesBalanced ==
    \A w \in Workers :
        LET path == workers[w].po.path IN
        \A e \in Range(path) : \A k \in {1, 2} :
            /\ Degree(path, e[k], 1) = Degree(path, e[k], 2)
            /\ Degree(path, e[k], 1) <= 1

C12_Witness ==
    \E w \in Workers : workers[w].po.ms.found /\ Len(workers[w].po.path) >= 3

\* a call of find_arbitrage() has returned and no later one has begun
Returned1(w) == workers[w].po.run_times >= 1 /\ workers[w].po.step = "out"

VolOf(po, e) == IF e \in DOMAIN po.vol_matrix THEN po.vol_matrix[e] ELSE 0

\* C13: no edge whose vol_matrix entry of the iteration is below
\* min_trading_limit is in the cycle find_arbitrage() returns for that
\* iteration, also when the preferred-start constraint forces an edge.
C13_NoIlliquidEdge ==
    \A w \in Workers :
        Returned1(w) =>
            \A e \in Range(workers[w].po.path) :
                AtLeastLimit(workers[w].po, VolOf(workers[w].po, e))

\* C14: the edges selected in a solution, and so those of the returned cycle,
\* are at most path_length many, for every path_length that
\* set_optimizer_parameters accepts.
C14_PathLengthBound ==
    \A w \in Workers :
        (Returned1(w) /\ workers[w].po.ms.found) =>
            /\ Cardinality(workers[w].po.ms.edges) <= workers[w].po.path_length.n
            /\ Len(workers[w].po.path) <= workers[w].po.path_length.n

\* C15: in every detection iteration a decision variable exists for the pair
\* (u, v) exactly if var_location[u, v] is true, as many variables as true
\* entries; both are built once, at the first iteration, and never again.
C15_VariablesMatchMask ==
    \A w \in Workers :
        LET po == workers[w].po IN
        /\ po.inits <= 1
        /\ (po.made /\ (po.run_times >= 1 \/ po.step # "out")) =>
              /\ po.inits = 1
              /\ po.x = po.var_location
              /\ po.var = Cardinality(po.var_location)

C15_Witness ==
    \E w \in Workers : workers[w].po.run_times = 2 /\ workers[w].po.var > 0

\* the nodes a venue that lists its markets contributes to currency_set
NodesOf(m, v) == {<< v, c >> : c \in (Currencies(m, v) \cap tokens) \ fiat}

\* C16: when one of three venues fails to list its markets, init_currency_info()
\* returns without raising, no node of the failing venue is in the universe,
\* and the nodes of the other two venues are all in it.
C16_DegradedStartup ==
    [][\A w \in Workers :
          (/\ workers[w].pc = "init_universe"
           /\ workers[w].po.exchanges = ThreeVenues
           /\ workers'[w] # workers[w])
          => /\ workers'[w].pc = "loop_top"
             /\ workers'[w].po.crypto_prices # {}
                 => \E failing \in ThreeVenues.exchanges \cup {"none"} :
                       /\ workers'[w].po.loaded = ThreeVenues.exchanges \ {failing}
                       /\ \A v \in ThreeVenues.exchanges :
                             {n \in workers'[w].po.currency_set : Venue(n) = v}
                                 = IF v # failing THEN NodesOf(ThreeVenues, v) ELSE {}]_vars

C16_Witness ==
    \E w \in Workers :
        /\ workers[w].pc = "loop_top"
        /\ workers[w].po.exchanges = ThreeVenues
        /\ workers[w].po.loaded = {"v1", "v3"}
        /\ workers[w].po.currency_set = NodesOf(ThreeVenues, "v1") \cup NodesOf(ThreeVenues, "v3")

\* C17: once the stop event is set and stays set, a worker in its sleep loop
\* ends at most the one-second sleep it is in, takes no further sleep and
\* starts no further find_arbitrage(); it leaves the loop and records stopped.
C17_StopEndsSleep ==
    [][\A w \in Workers :
          (/\ stop_event /\ stop_event'
           /\ workers'[w].pc # workers[w].pc
           /\ workers'[w].pc # "killed"
           /\ workers'[w].pc = "gone" => workers[w].pc = "after_loop")
          => /\ workers'[w].pc # "find"
             /\ workers[w].pc = "sleep_check" => workers'[w].pc = "after_sleep"
             /\ workers[w].pc = "sleeping" => workers'[w].pc = "sleep_check"
             /\ workers[w].pc \in {"after_sleep", "loop_top"} => workers'[w].pc = "after_loop"
             /\ workers[w].pc = "after_loop" =>
                   \/ workers'[w].pc = "gone"
                   \/ workers'[w].pc = "exited" /\ workers'[w].status = "stopped"]_vars

C17_Witness ==
    \E w \in Workers :
        /\ stop_event
        /\ workers[w].pc = "exited"
        /\ workers[w].status = "stopped"

\* the tickers of the venues whose fetch returned them
FetchedTickers(po) ==
    UNION {{<< v, pair >> : pair \in po.exchanges.markets[v]} :
             v \in {u \in DOMAIN po.threads.outputList : po.threads.outputList[u]}}

\* C18: solve() is not reached before every fetch thread of the iteration's
\* balance and ticker refreshes has been joined and its result merged into the
\* balance table and the price table the matrices are computed from.
C18_SolveAfterRefresh ==
    \A w \in Workers :
        LET po == workers[w].po IN
        /\ (workers[w].pc = "find" /\ po.step \in {"tickers", "solve"}) =>
              po.balance_dict = BalanceDict(po, po.exchanges.exchanges)
        /\ (workers[w].pc = "find" /\ po.step = "solve") =>
              /\ po.threads.running = {}
              /\ DOMAIN po.threads.outputList = po.exchanges.exchanges
              /\ po.price = FetchedTickers(po)
              /\ DOMAIN po.objective = po.x

C18_Witness ==
    \E w \in Workers :
        /\ workers[w].pc = "find"
        /\ workers[w].po.step = "solve"
        /\ workers[w].po.exchanges = ThreeVenues
        /\ workers[w].po.simulated_bal = VNone
        /\ workers[w].po.price # {}
        /\ workers[w].po.balance_dict # << >>

\* C19: a failed fetch inside an iteration (tickers, balances, fee quotes or
\* reference prices of a venue) does not abort the loop: find_arbitrage()
\* returns and the worker does not enter error.  Read for universes in which
\* no coin is held on two venues.
C19_FailedFetchTolerated ==
    \A w \in Workers :
        LET po == workers[w].po IN
        (po.made /\ po.failed # {} /\ SameCoinPairs(po) = {}) =>
            ~(workers[w].pc \in {"exited", "raised"} /\ workers[w].status = "error")

\* C20: when solve() yields no solution the iteration reports no opportunity:
\* the path is empty and the objective 0 whatever an earlier iteration left,
\* have_opportunity() is false, the worker records running_no_opportunity and
\* not error, and it stays in the loop.
C20_NoSolutionNoOpportunity ==
    \A w \in Workers :
        LET po == workers[w].po IN
        (Returned1(w) /\ ~po.ms.found) =>
            /\ po.path = << >>
            /\ po.obj = 0
            /\ ~HaveOpportunity(po)
            /\ workers[w].status = "running_no_opportunity"
            /\ workers[w].pc \in {"sleep_check", "sleeping", "after_sleep", "loop_top", "find"}

C20_Witness ==
    \E w \in Workers :
        /\ workers[w].po.run_times = 2
        /\ workers[w].po.step = "out"
        /\ ~workers[w].po.ms.found
        /\ workers[w].po.xs # {}
        /\ workers[w].pc = "loop_top"

\* each edge of path ends where the next one starts, the last one where the
\* first one starts
Chained(path) ==
    \A i \in DOMAIN path :
        path[i][2] = path[IF i = Len(path) THEN 1 ELSE i + 1][1]

\* C21: for every solved iteration the path find_arbitrage() returns holds
\* exactly the edges the solver selected, each once, ordered head to tail as
\* one closed walk, also when the selected edges form several disjoint cycles.
C21_PathIsWholeSolution ==
    \A w \in Workers :
        (Returned1(w) /\ workers[w].po.ms.found) =>
            /\ Range(workers[w].po.path) = workers[w].po.ms.edges
            /\ Len(workers[w].po.path) = Cardinality(workers[w].po.ms.edges)
            /\ Chained(workers[w].po.path)

\* the nodes of one coin on two different venues
InterVenuePairs(po) ==
    {e \in (po.exchanges.exchanges \X {"A", "B"}) \X (po.exchanges.exchanges \X {"A", "B"}) :
        Coin(e[1]) = Coin(e[2]) /\ Venue(e[1]) # Venue(e[2])}

\* C22: with inter-venue trading enabled the mask holds the edge from
\* (venueX, A) to (venueY, A) exactly if A is a node on both venues and the
\* fee table quotes A on the source venue X, whatever it quotes on venue Y.
C22_EdgeIffSourceQuote ==
    \A w \in Workers :
        LET po == workers[w].po IN
        (po.step = "masked" /\ po.inter_exchange_trading) =>
            \A e \in InterVenuePairs(po) :
                e \in po.var_location
                    <=> /\ e[1] \in po.currency_set
                        /\ e[2] \in po.currency_set
                        /\ e[1] \in po.withdrawal_fee.nodes

\* C23: in every detection iteration that returns, the conversion-rate, the
\* liquidity and the commission matrix have all been rebuilt in that
\* iteration, whether or not its index is a multiple of refresh_time.
C23_MatricesRebuiltEveryIteration ==
    \A w \in Workers :
        Returned1(w) =>
            {"transit_price_matrix", "vol_matrix", "commission_matrix"}
                \subseteq workers[w].po.rebuilt

\* entry index of the result when item index was processed
ResultOf(index) ==
    IF pool.List[index + 1] \in {"raise", "stop_raise"} THEN None ELSE FuncValue(index)

\* C24: multiThread(func, List, threadNum) calls func exactly once on every
\* item, whatever the interleaving of its threads, and returns a list of the
\* length of List whose entry i is func(List[i]), or None when func raised.
C24_MultiThreadOrdered ==
    (pool.phase = "returned" /\ ~pool.killable) =>
        /\ Len(pool.final) = Len(pool.List)
        /\ \A index \in DOMAIN pool.calls :
              /\ pool.calls[index] = 1
              /\ pool.final[index + 1] = ResultOf(index)

C24_Witness ==
    /\ pool.phase = "returned"
    /\ ~pool.killable
    /\ pool.threadNum = 2
    /\ pool.List = << "ok", "raise", "ok" >>
    /\ pool.outputList[1][1] = 1

\* C25: killable_multiThread(func, List, threadNum) returns a list of the
\* length of List, in input order, also when the event is set during the
\* round: entry i is the result of item i, or None when the item failed or was
\* not processed because the event was set.
C25_KillableOrdered ==
    (pool.phase = "returned" /\ pool.killable) =>
        /\ Len(pool.final) = Len(pool.List)
        /\ \A index \in DOMAIN pool.calls :
              pool.final[index + 1] =
                  IF pool.calls[index] = 0 THEN None ELSE ResultOf(index)

\* the nodes of the model whose USD balance is at least min_trading_limit
Qualifying(po) ==
    {n \in DOMAIN po.balance_dict \cap po.currency_set :
        AtLeastLimit(po, po.balance_dict[n])}

\* C26: with consider_init_bal enabled, after the update of an iteration the
\* preferred-start constraint is in the model exactly if some node has a
\* balance of at least min_trading_limit (and the model has variables), and
\* then over those nodes; it is neither removed nor added in an iteration
\* where the set of those nodes is the one of the iteration before.
C26_PreferredStartPolicy ==
    [][\A w \in Workers :
          LET po == workers[w].po
              qo == workers'[w].po
          IN (qo.run_times = po.run_times + 1 /\ qo.consider_init_bal) =>
                /\ qo.changeable.on <=> (Qualifying(qo) # {} /\ qo.var > 0)
                /\ qo.changeable.on => qo.changeable.idx = Qualifying(qo)
                /\ (po.run_times >= 1 /\ Qualifying(qo) = Qualifying(po))
                      => qo.constraint_ops = {}]_vars

\* worker w ends the processing of a detected opportunity in this step
OpportunityProcessed(w) ==
    workers[w].pc = "opportunity" /\ workers'[w].pc # "opportunity"

\* C27: the trade history only grows at its end; the processing of a detected
\* opportunity appends exactly one entry, and every other step of an
\* iteration none.
C27_HistoryAppendOnly ==
    [][/\ Len(trade_history') >= Len(trade_history)
       /\ SubSeq(trade_history', 1, Len(trade_history)) = trade_history
       /\ Len(trade_history') =
             Len(trade_history) + Cardinality({w \in Workers : OpportunityProcessed(w)})]_vars

\* C30: the processing of a detected opportunity never executes a trade: it
\* leaves the worker running with the state executed_trade_simulation (or
\* opportunity_no_workable_solution when the sizing finds nothing workable)
\* and the history record written.
C30_OpportunityOnlySimulated ==
    [][\A w \in Workers :
          OpportunityProcessed(w) =>
             /\ workers'[w].pc = "sleep_check"
             /\ workers'[w].status
                    \in {"executed_trade_simulation", "opportunity_no_workable_solution"}
             /\ trade_history' # trade_history]_vars

\* C28: when inter-venue trading is enabled and some coin is a node on two
\* venues, the first call of find_arbitrage() gets through _run_time_init():
\* the fee table is loaded by the time the inter-venue pairs are computed, and
\* the variables are built.
C28_FeesBeforePairs ==
    \A w \in Workers :
        LET po == workers[w].po IN
        (po.made /\ po.inter_exchange_trading /\ SameCoinPairs(po) # {}
            /\ FirstIterationOver(w)) =>
                /\ po.withdrawal_fee.known
                /\ po.inits = 1

\* a stop() has set the state to stopping and has not returned yet
StopInProgress == \E s \in Callers : tpc[s] \in {"stop_join", "stop_term"}

====
